---- MODULE Spec2Model ----
(***************************************************************************)
(* PSUR compliance kernel: the adjudication engine                         *)
(* (core/adjudication.py) and the template qualification engine            *)
(* (core/qualification.py) over the data model of core/types.py.           *)
(*                                                                         *)
(* Python lists are sequences, dicts are functions, None is the string     *)
(* "None".  A formatted message is a record [text, items]: the fixed text  *)
(* of the f-string and the list of values interpolated into it.            *)
(***************************************************************************)
EXTENDS Integers, Sequences, FiniteSets, TLC

VARIABLES
    obligations,        \* CompiledObligations.obligations
    rules,              \* CompiledRules.constraints
    template,           \* TemplateSchema.slots
    mapping,            \* ObligationMapping.mappings
    obligation_lookup,  \* AdjudicationEngine._obligation_lookup
    evidence_atoms,     \* the evidence store handed to adjudicate: atom_id -> EvidenceAtom
    hash_seed,          \* the process's string hash seed: fixes the iteration order of sets
    uuid_counter,       \* number of uuid4 values drawn so far
    clock,              \* datetime.utcnow()
    pc,                 \* where the caller is
    proposal,           \* the SlotProposal of the last adjudicate call
    result,             \* the AdjudicationResult of the last adjudicate call
    previous,           \* the AdjudicationResult of the call before it
    report,             \* the QualificationReport of the last qualify_template call
    trace_slot_type,    \* the slot_type argument of generate_trace
    trace_nodes,        \* what generate_trace returned, or that it raised
    trace_complete,     \* what validate_trace_completeness returned
    period_list,        \* the list handed to validate_period_contiguity
    contiguity,         \* what validate_period_contiguity returned
    db,                 \* the tables of the SQLite store: id -> row
    files,              \* the DSL files on disk: name -> declarations, as parsed
    compiled,           \* what compile_file returned
    schedule            \* what get_schedule_constraint returned, in days

vars == <<obligations, rules, template, mapping, obligation_lookup, evidence_atoms,
          hash_seed, uuid_counter, clock, pc, proposal, result, previous, report,
          trace_slot_type, trace_nodes, trace_complete, period_list, contiguity, db,
          files, compiled, schedule>>

engine_vars == <<obligations, rules, template, mapping, obligation_lookup>>

trace_vars == <<trace_slot_type, trace_nodes, trace_complete>>

period_vars == <<period_list, contiguity>>

compile_vars == <<files, compiled, schedule>>

None == "None"

Range(s) == {s[i] : i \in DOMAIN s}

SeqsUpTo(S, n) == UNION {[1..k -> S] : k \in 0..n}

\* [f(x) for x in s]
MapSeq(s, f(_)) == [i \in DOMAIN s |-> f(s[i])]

(***************************************************************************)
(* Bounds                                                                  *)
(***************************************************************************)
MaxObligations == 2
MaxMappings == 2

(***************************************************************************)
(* core/types.py: enumerations (the members the model draws from, in       *)
(* declaration order) and entities                                         *)
(***************************************************************************)
EvidenceTypes == <<"sales_volume", "complaint_record">>

Transformations == <<"summarize", "invent">>

SlotTypes == <<"narrative", "table", "kv">>

OutputTypes == <<"narrative", "table", "table_ref", "kv">>

EnumMembers == EvidenceTypes \o Transformations \o OutputTypes

Obligation(id, mandatory, required_evidence_types, allowed_transformations, forbidden_transformations, required_time_scope, allowed_output_types, allow_absence_statement) ==
    [id |-> id, mandatory |-> mandatory,
     required_evidence_types |-> required_evidence_types,
     allowed_transformations |-> allowed_transformations,
     forbidden_transformations |-> forbidden_transformations,
     required_time_scope |-> required_time_scope,
     allowed_output_types |-> allowed_output_types,
     allow_absence_statement |-> allow_absence_statement]

Constraint(id, severity, trigger, condition, action) ==
    [id |-> id, severity |-> severity, trigger |-> trigger,
     condition |-> condition, action |-> action]

Slot(slot_id, slot_type) == [slot_id |-> slot_id, slot_type |-> slot_type]

SlotMapping(obligation_id, slot_ids) ==
    [obligation_id |-> obligation_id, slot_ids |-> slot_ids]

EvidenceAtom(atom_id, evidence_type) ==
    [atom_id |-> atom_id, evidence_type |-> evidence_type]

SlotProposal(proposal_id, agent_id, slot_id, payload, atoms, claimed_basis, transformations_used) ==
    [proposal_id |-> proposal_id, agent_id |-> agent_id, slot_id |-> slot_id,
     payload |-> payload, evidence_atoms |-> atoms,
     claimed_basis |-> claimed_basis,
     transformations_used |-> transformations_used]

Message(text, items) == [text |-> text, items |-> items]

CheckResult(check_id, check_type, passed, message, obligation_id, constraint_id) ==
    [check_id |-> check_id, check_type |-> check_type, passed |-> passed,
     message |-> message, obligation_id |-> obligation_id,
     constraint_id |-> constraint_id]

\* RejectionReason declares no constraint_id field: the keyword the engine
\* passes for a failed constraint is dropped by the model class.
RejectionReason(rule_id, rule_type, obligation_id, message) ==
    [rule_id |-> rule_id, rule_type |-> rule_type,
     obligation_id |-> obligation_id, message |-> message]

AdjudicationResult(adjudication_id, proposal_id, status, check_results, rejection_reasons, adjudicated_at) ==
    [adjudication_id |-> adjudication_id, proposal_id |-> proposal_id,
     status |-> status, check_results |-> check_results,
     rejection_reasons |-> rejection_reasons,
     adjudicated_at |-> adjudicated_at]

NoSlot == Slot(None, None)

NoProposal == SlotProposal(None, None, None, None, <<>>, <<>>, <<>>)

NoResult == AdjudicationResult(None, None, None, <<>>, <<>>, 0)

\* Variant of get_slot with a fault: falls back to the template's first slot
\* when no slot has the id.
get_slot_fallback(slots, slot_id) ==
    IF \E i \in DOMAIN slots : slots[i].slot_id = slot_id
    THEN slots[CHOOSE i \in DOMAIN slots :
                   /\ slots[i].slot_id = slot_id
                   /\ \A j \in 1..(i - 1) : slots[j].slot_id # slot_id]
    ELSE IF slots # <<>> THEN slots[1] ELSE NoSlot

\* TemplateSchema.get_slot: the first slot with the id, or None
get_slot(slots, slot_id) ==
    IF \E i \in DOMAIN slots : slots[i].slot_id = slot_id
    THEN slots[CHOOSE i \in DOMAIN slots :
                   /\ slots[i].slot_id = slot_id
                   /\ \A j \in 1..(i - 1) : slots[j].slot_id # slot_id]
    ELSE NoSlot

\* ObligationMapping.get_obligations_for_slot
get_obligations_for_slot(mappings, slot_id) ==
    LET lists(m) == slot_id \in Range(m.slot_ids)
        oid(m) == m.obligation_id
    IN  MapSeq(SelectSeq(mappings, lists), oid)

\* {o.id: o for o in compiled_obligations.obligations}: a later obligation
\* with the same id replaces an earlier one
build_obligation_lookup(obls) ==
    [id \in {obls[i].id : i \in DOMAIN obls} |->
        obls[CHOOSE i \in DOMAIN obls :
                 /\ obls[i].id = id
                 /\ \A j \in DOMAIN obls : obls[j].id = id => j <= i]]

\* The order in which Python iterates a set of enum members. The members hash
\* as strings, so the order is fixed within a process by its hash seed and
\* differs between processes: declaration order under seed 0, the reverse
\* under seed 1.
EnumIndex(x) == CHOOSE i \in DOMAIN EnumMembers : EnumMembers[i] = x

RECURSIVE set_iteration(_, _)
set_iteration(S, seed) ==
    IF S = {} THEN <<>>
    ELSE LET x == CHOOSE y \in S : \A z \in S :
                      IF seed = 0 THEN EnumIndex(y) <= EnumIndex(z)
                                  ELSE EnumIndex(y) >= EnumIndex(z)
         IN  <<x>> \o set_iteration(S \ {x}, seed)

(***************************************************************************)
(* core/adjudication.py                                                    *)
(***************************************************************************)
\* Variant of _check_evidence_types with a fault: allow_absence_statement is
\* not consulted, so missing types always fail the check.
_check_evidence_types_no_waiver(p, obligation, atoms, seed) ==
    LET in_store(atom_id) == atom_id \in DOMAIN atoms
        referenced_atoms == SelectSeq(p.evidence_atoms, in_store)
        present_types == {atoms[a].evidence_type : a \in Range(referenced_atoms)}
        missing_types == Range(obligation.required_evidence_types) \ present_types
    IN  IF missing_types # {}
        THEN CheckResult("evidence_types", "obligation", FALSE,
                 Message("Missing required evidence types",
                         set_iteration(missing_types, seed)),
                 obligation.id, None)
        ELSE CheckResult("evidence_types", "obligation", TRUE,
                 Message("All required evidence types present", <<>>),
                 obligation.id, None)

_check_evidence_types(p, obligation, atoms, seed) ==
    IF obligation.required_evidence_types = <<>>
    THEN CheckResult("evidence_types", "obligation", TRUE,
                     Message("No evidence types required", <<>>),
                     obligation.id, None)
    ELSE
    LET in_store(atom_id) == atom_id \in DOMAIN atoms
        referenced_atoms == SelectSeq(p.evidence_atoms, in_store)
        present_types == {atoms[a].evidence_type : a \in Range(referenced_atoms)}
        missing_types == Range(obligation.required_evidence_types) \ present_types
    IN  IF missing_types # {} /\ obligation.allow_absence_statement
        THEN CheckResult("evidence_types", "obligation", TRUE,
                 Message("Missing evidence types allowed via absence statement",
                         set_iteration(missing_types, seed)),
                 obligation.id, None)
        ELSE IF missing_types # {}
        THEN CheckResult("evidence_types", "obligation", FALSE,
                 Message("Missing required evidence types",
                         set_iteration(missing_types, seed)),
                 obligation.id, None)
        ELSE CheckResult("evidence_types", "obligation", TRUE,
                 Message("All required evidence types present", <<>>),
                 obligation.id, None)

_check_time_scope(p, obligation, atoms) ==
    IF obligation.required_time_scope = None
    THEN CheckResult("time_scope", "obligation", TRUE,
                     Message("No time scope required", <<>>), obligation.id, None)
    ELSE CheckResult("time_scope", "obligation", TRUE,
                     Message("Time scope validation passed", <<>>),
                     obligation.id, None)

\* Variant of _check_transformations with a fault: the allowed list is not
\* consulted, only the forbidden list.
_check_transformations_forbidden_only(p, obligation, seed) ==
    LET used_forbidden == Range(p.transformations_used)
                              \cap Range(obligation.forbidden_transformations)
    IN  IF used_forbidden # {}
        THEN CheckResult("transformations", "obligation", FALSE,
                 Message("Forbidden transformations used",
                         set_iteration(used_forbidden, seed)),
                 obligation.id, None)
        ELSE CheckResult("transformations", "obligation", TRUE,
                 Message("All transformations valid", <<>>),
                 obligation.id, None)

_check_transformations(p, obligation, seed) ==
    LET used == Range(p.transformations_used)
        allowed == Range(obligation.allowed_transformations)
        forbidden == Range(obligation.forbidden_transformations)
        used_forbidden == used \cap forbidden
    IN  IF used_forbidden # {}
        THEN CheckResult("transformations", "obligation", FALSE,
                 Message("Forbidden transformations used",
                         set_iteration(used_forbidden, seed)),
                 obligation.id, None)
        ELSE IF allowed # {} /\ ~(used \subseteq allowed)
        THEN CheckResult("transformations", "obligation", FALSE,
                 Message("Transformations not in allowed list",
                         set_iteration(used \ allowed, seed)),
                 obligation.id, None)
        ELSE CheckResult("transformations", "obligation", TRUE,
                 Message("All transformations valid", <<>>),
                 obligation.id, None)

\* Variant of _evaluate_constraint with a fault: a constraint passes only for
\* a proposal that claims a regulatory basis.
_evaluate_constraint_requires_basis(constraint, p, atoms) ==
    CheckResult(constraint.id, "constraint", p.claimed_basis # <<>>,
                Message("Constraint passed", <<>>), None, constraint.id)

\* Variant of _evaluate_constraint with a fault: a no_invention condition is
\* evaluated and fails the constraint when invent was used.
_evaluate_constraint_no_invention(constraint, p, atoms) ==
    IF constraint.condition = "no_invention" /\ "invent" \in Range(p.transformations_used)
    THEN CheckResult(constraint.id, "constraint", FALSE,
                     Message("Forbidden transformations used", <<"invent">>),
                     None, constraint.id)
    ELSE CheckResult(constraint.id, "constraint", TRUE,
                     Message("Constraint passed", <<>>), None, constraint.id)

_evaluate_constraint(constraint, p, atoms) ==
    CheckResult(constraint.id, "constraint", TRUE,
                Message("Constraint passed", <<>>), None, constraint.id)

\* Variant of _evaluate_constraints with a fault: the trigger is not looked at.
_evaluate_constraints_any_trigger(constraints, p, atoms) ==
    LET eval(c) == _evaluate_constraint(c, p, atoms)
    IN  MapSeq(constraints, eval)

\* for constraint in self.rules.constraints: ...
_evaluate_constraints(constraints, p, atoms) ==
    LET triggered(c) == c.trigger = "on_proposal_submit"
        eval(c) == _evaluate_constraint(c, p, atoms)
    IN  MapSeq(SelectSeq(constraints, triggered), eval)

_build_result(adjudication_id, proposal_id, status, check_results, rejection_reasons, now) ==
    AdjudicationResult(adjudication_id, proposal_id, status, check_results,
                       rejection_reasons, now)

\* Variant of new_accumulators with a fault: the lists live on the engine and
\* are not emptied between calls.
stale_accumulators ==
    [check_results |-> result.check_results,
     rejection_reasons |-> result.rejection_reasons]

\* check_results and rejection_reasons as adjudicate creates them
new_accumulators == [check_results |-> <<>>, rejection_reasons |-> <<>>]

\* append the check; append a rejection reason when it did not pass
record_check(acc, check, rule_id, obligation_id) ==
    [check_results |-> Append(acc.check_results, check),
     rejection_reasons |->
        IF ~check.passed
        THEN Append(acc.rejection_reasons,
                    RejectionReason(rule_id, "obligation", obligation_id,
                                    check.message))
        ELSE acc.rejection_reasons]

\* Variant of obligation_loop with a fault: the checks of an obligation stop
\* at the first one that does not pass.
RECURSIVE obligation_loop_short_circuit(_, _, _, _, _, _)
obligation_loop_short_circuit(obligation_ids, lookup, p, atoms, seed, acc) ==
    IF obligation_ids = <<>> THEN acc
    ELSE
    LET obligation_id == Head(obligation_ids)
    IN  IF obligation_id \notin DOMAIN lookup
        THEN obligation_loop_short_circuit(Tail(obligation_ids), lookup, p, atoms,
                                           seed, acc)
        ELSE
        LET obligation == lookup[obligation_id]
            evidence == _check_evidence_types(p, obligation, atoms, seed)
            acc1 == record_check(acc, evidence, "EVIDENCE_TYPES", obligation_id)
            acc2 == record_check(acc1,
                        _check_time_scope(p, obligation, atoms),
                        "TIME_SCOPE", obligation_id)
            acc3 == record_check(acc2,
                        _check_transformations(p, obligation, seed),
                        "TRANSFORMATIONS", obligation_id)
        IN  obligation_loop_short_circuit(Tail(obligation_ids), lookup, p, atoms,
                seed, IF evidence.passed THEN acc3 ELSE acc1)

\* for obligation_id in obligation_ids: ...
RECURSIVE obligation_loop(_, _, _, _, _, _)
obligation_loop(obligation_ids, lookup, p, atoms, seed, acc) ==
    IF obligation_ids = <<>> THEN acc
    ELSE
    LET obligation_id == Head(obligation_ids)
    IN  IF obligation_id \notin DOMAIN lookup
        THEN obligation_loop(Tail(obligation_ids), lookup, p, atoms, seed, acc)
        ELSE
        LET obligation == lookup[obligation_id]
            acc1 == record_check(acc,
                        _check_evidence_types(p, obligation, atoms, seed),
                        "EVIDENCE_TYPES", obligation_id)
            acc2 == record_check(acc1,
                        _check_time_scope(p, obligation, atoms),
                        "TIME_SCOPE", obligation_id)
            acc3 == record_check(acc2,
                        _check_transformations(p, obligation, seed),
                        "TRANSFORMATIONS", obligation_id)
        IN  obligation_loop(Tail(obligation_ids), lookup, p, atoms, seed, acc3)

\* check_results.extend(constraint_results) and one rejection reason per
\* constraint result that did not pass
constraint_rejections(constraint_results) ==
    LET failed(r) == ~r.passed
        reason(r) == RejectionReason(r.check_id, "constraint", None, r.message)
    IN  MapSeq(SelectSeq(constraint_results, failed), reason)

\* Variant of verdict with a fault: the comparison with "warning" is inverted.
verdict_inverted(rejection_reasons) ==
    LET blocking(r) == r.rule_type = "warning"
    IN  IF SelectSeq(rejection_reasons, blocking) # <<>>
        THEN "REJECTED" ELSE "ACCEPTED"

\* REJECTED when some rejection reason is blocking
verdict(rejection_reasons) ==
    LET blocking(r) == r.rule_type # "warning"
        blocking_rejections == SelectSeq(rejection_reasons, blocking)
    IN  IF blocking_rejections # <<>> THEN "REJECTED" ELSE "ACCEPTED"

adjudicate(slots, mappings, constraints, lookup, p, atoms, seed, adjudication_id, now) ==
    LET slot == get_slot(slots, p.slot_id)
    IN  IF slot = NoSlot
        THEN _build_result(adjudication_id, p.proposal_id, "REJECTED",
                 new_accumulators.check_results,
                 Append(new_accumulators.rejection_reasons,
                        RejectionReason("SLOT_EXISTS", "structural", None,
                            Message("Slot does not exist in template",
                                    <<p.slot_id>>))),
                 now)
        ELSE
        LET obligation_ids == get_obligations_for_slot(mappings, p.slot_id)
            acc == obligation_loop(obligation_ids, lookup, p, atoms, seed,
                                   new_accumulators)
            constraint_results == _evaluate_constraints(constraints, p, atoms)
            check_results == acc.check_results \o constraint_results
            rejection_reasons ==
                acc.rejection_reasons \o constraint_rejections(constraint_results)
        IN  _build_result(adjudication_id, p.proposal_id,
                          verdict(rejection_reasons), check_results,
                          rejection_reasons, now)

\* str(uuid.uuid4())[:8]: a fresh identifier
new_uuid(n) == n + 1

(***************************************************************************)
(* core/qualification.py                                                   *)
(***************************************************************************)
SLOT_OUTPUT_COMPATIBILITY ==
    [t \in {"narrative", "table", "kv"} |->
        IF t = "narrative" THEN {"narrative"}
        ELSE IF t = "table" THEN {"table", "table_ref"}
        ELSE {"kv"}]

\* SLOT_OUTPUT_COMPATIBILITY.get(slot_type, set())
compatible_outputs(slot_type) ==
    IF slot_type \in DOMAIN SLOT_OUTPUT_COMPATIBILITY
    THEN SLOT_OUTPUT_COMPATIBILITY[slot_type] ELSE {}

QualificationIssue(issue_type, obligation_id, slot_id, message) ==
    [issue_type |-> issue_type, obligation_id |-> obligation_id,
     slot_id |-> slot_id, message |-> message]

QualificationReport(status, template_id, missing_mandatory_obligations, dangling_mappings, incompatible_slot_types, issues) ==
    [status |-> status, template_id |-> template_id,
     missing_mandatory_obligations |-> missing_mandatory_obligations,
     dangling_mappings |-> dangling_mappings,
     incompatible_slot_types |-> incompatible_slot_types,
     issues |-> issues]

\* CompiledObligations.get_mandatory
get_mandatory(obls) ==
    LET mandatory(o) == o.mandatory
    IN  SelectSeq(obls, mandatory)

\* {s.slot_id: s for s in template_schema.slots}
build_slot_lookup(slots) ==
    [id \in {slots[i].slot_id : i \in DOMAIN slots} |->
        slots[CHOOSE i \in DOMAIN slots :
                  /\ slots[i].slot_id = id
                  /\ \A j \in DOMAIN slots : slots[j].slot_id = id => j <= i]]

\* {m.obligation_id for m in mapping.mappings}
mapped_obligation_ids(mappings) == {mappings[i].obligation_id : i \in DOMAIN mappings}

\* first loop: one issue per mandatory obligation whose id no mapping entry names
missing_mandatory_issues(obls, mappings) ==
    LET unmapped(o) == o.id \notin mapped_obligation_ids(mappings)
        issue(o) == QualificationIssue("missing_mandatory", o.id, None,
                        Message("Mandatory obligation is not mapped to any slot",
                                <<o.id>>))
    IN  MapSeq(SelectSeq(get_mandatory(obls), unmapped), issue)

\* second loop: one issue per slot id of a mapping entry that is not in the template
RECURSIVE dangling_mapping_issues(_, _)
dangling_mapping_issues(mappings, slot_lookup) ==
    IF mappings = <<>> THEN <<>>
    ELSE
    LET slot_mapping == Head(mappings)
        dangling(slot_id) == slot_id \notin DOMAIN slot_lookup
        issue(slot_id) ==
            QualificationIssue("dangling_mapping", slot_mapping.obligation_id, slot_id,
                Message("Slot referenced in mapping does not exist in template",
                        <<slot_id>>))
    IN  MapSeq(SelectSeq(slot_mapping.slot_ids, dangling), issue)
            \o dangling_mapping_issues(Tail(mappings), slot_lookup)

\* Variant of incompatible_type_issues with a fault: the obligation's first
\* allowed output type alone decides compatibility.
RECURSIVE incompatible_type_issues_first(_, _, _)
incompatible_type_issues_first(mappings, lookup, slot_lookup) ==
    IF mappings = <<>> THEN <<>>
    ELSE
    LET slot_mapping == Head(mappings)
        rest == incompatible_type_issues_first(Tail(mappings), lookup, slot_lookup)
    IN  IF slot_mapping.obligation_id \notin DOMAIN lookup THEN rest
        ELSE
        LET obligation == lookup[slot_mapping.obligation_id]
        IN  IF obligation.allowed_output_types = <<>> THEN rest
            ELSE
            LET incompatible(slot_id) ==
                    /\ slot_id \in DOMAIN slot_lookup
                    /\ obligation.allowed_output_types[1]
                           \notin compatible_outputs(slot_lookup[slot_id].slot_type)
                issue(slot_id) ==
                    QualificationIssue("incompatible_type", obligation.id, slot_id,
                        Message("Slot type is not compatible with obligation allowed outputs",
                                <<slot_id, slot_lookup[slot_id].slot_type>>
                                    \o obligation.allowed_output_types))
            IN  MapSeq(SelectSeq(slot_mapping.slot_ids, incompatible), issue) \o rest

\* third loop: one issue per existing slot of a mapping entry whose type is
\* compatible with none of the allowed output types of the entry's obligation
RECURSIVE incompatible_type_issues(_, _, _)
incompatible_type_issues(mappings, lookup, slot_lookup) ==
    IF mappings = <<>> THEN <<>>
    ELSE
    LET slot_mapping == Head(mappings)
        rest == incompatible_type_issues(Tail(mappings), lookup, slot_lookup)
    IN  IF slot_mapping.obligation_id \notin DOMAIN lookup THEN rest
        ELSE
        LET obligation == lookup[slot_mapping.obligation_id]
        IN  IF obligation.allowed_output_types = <<>> THEN rest
            ELSE
            LET incompatible(slot_id) ==
                    /\ slot_id \in DOMAIN slot_lookup
                    /\ ~\E i \in DOMAIN obligation.allowed_output_types :
                           obligation.allowed_output_types[i]
                               \in compatible_outputs(slot_lookup[slot_id].slot_type)
                issue(slot_id) ==
                    QualificationIssue("incompatible_type", obligation.id, slot_id,
                        Message("Slot type is not compatible with obligation allowed outputs",
                                <<slot_id, slot_lookup[slot_id].slot_type>>
                                    \o obligation.allowed_output_types))
            IN  MapSeq(SelectSeq(slot_mapping.slot_ids, incompatible), issue) \o rest

\* Variant of qualification_status with a fault: incompatible slot types do
\* not fail the qualification.
qualification_status_lenient(issues) ==
    IF \E i \in DOMAIN issues : issues[i].issue_type # "incompatible_type"
    THEN "FAIL" ELSE "PASS"

\* status = FAIL if issues else PASS
qualification_status(issues) == IF issues # <<>> THEN "FAIL" ELSE "PASS"

\* Variant of collect_issues with a fault: the later checks are skipped once
\* an earlier check has found an issue.
collect_issues_early_exit(missing, dangling, incompatible) ==
    IF missing # <<>> THEN missing
    ELSE IF dangling # <<>> THEN dangling
    ELSE incompatible

\* the issues list after the three loops, each of which appends to it
collect_issues(missing, dangling, incompatible) == missing \o dangling \o incompatible

qualify_template(obls, template_id, slots, mappings) ==
    LET lookup == build_obligation_lookup(obls)
        slot_lookup == build_slot_lookup(slots)
        missing == missing_mandatory_issues(obls, mappings)
        dangling == dangling_mapping_issues(mappings, slot_lookup)
        incompatible == incompatible_type_issues(mappings, lookup, slot_lookup)
        issues == collect_issues(missing, dangling, incompatible)
        oid(i) == i.obligation_id
        sid(i) == i.slot_id
    IN  QualificationReport(qualification_status(issues), template_id,
                            MapSeq(missing, oid),
                            MapSeq(dangling, sid), incompatible, issues)

(***************************************************************************)
(* Adjudication: the engines, evidence stores and proposals drawn from     *)
(***************************************************************************)
RequiredEvidenceLists ==
    {<<>>, <<"sales_volume">>, <<"sales_volume", "complaint_record">>}

TransformationLists ==
    {<<>>, <<"summarize">>, <<"invent">>, <<"summarize", "invent">>}

TimeScopes == {None, "reporting_period"}

\* one obligation, every policy
PolicyObligations ==
    {Obligation("O1", TRUE, r, a, f, t, <<>>, w) :
        r \in RequiredEvidenceLists, a \in TransformationLists,
        f \in TransformationLists, t \in TimeScopes, w \in BOOLEAN}

\* obligations that engines with several obligations are built from: two
\* declarations share the id O1, as the compiler keeps duplicates
SampleObligations ==
    {Obligation("O1", TRUE, <<"sales_volume", "complaint_record">>,
                <<"summarize">>, <<"invent">>, None, <<>>, FALSE),
     Obligation("O1", TRUE, <<>>, <<>>, <<>>, None, <<>>, FALSE),
     Obligation("O2", TRUE, <<"complaint_record">>, <<>>, <<"invent">>,
                "reporting_period", <<>>, TRUE),
     Obligation("O2", FALSE, <<"sales_volume">>,
                <<"summarize", "invent">>, <<>>, None, <<>>, FALSE)}

AdjudicationTemplate == <<Slot("s1", "narrative"), Slot("s2", "table")>>

SingleMapping == <<SlotMapping("O1", <<"s1">>)>>

\* O9 is the id of no obligation; s9 is the id of no slot
SampleMappings ==
    {<<>>,
     SingleMapping,
     <<SlotMapping("O2", <<"s1">>), SlotMapping("O1", <<"s1", "s2">>)>>,
     <<SlotMapping("O9", <<"s1">>), SlotMapping("O1", <<"s1", "s9">>)>>,
     <<SlotMapping("O1", <<"s1">>), SlotMapping("O1", <<"s2", "s1">>)>>}

SampleRules ==
    {<<>>,
     <<Constraint("NO_INVENTION", "BLOCK", "on_proposal_submit",
                  "no_invention", "reject")>>,
     <<Constraint("PERIOD", "BLOCK", "on_period_close",
                  "evidence_within_period", "reject"),
       Constraint("NO_INVENTION", "WARN", "on_proposal_submit",
                  "no_invention", "warn"),
       Constraint("CUSTOM", "BLOCK", "on_proposal_submit",
                  "custom_condition", "reject")>>}

\* (obligations, mappings, constraints) of the engines
AdjudicationEngines ==
    {<<<<o>>, SingleMapping, <<>>>> : o \in PolicyObligations}
    \cup (SeqsUpTo(SampleObligations, MaxObligations) \X SampleMappings \X SampleRules)

EvidenceStore ==
    [a \in {"a1", "a2"} |->
        IF a = "a1" THEN EvidenceAtom("a1", "sales_volume")
                    ELSE EvidenceAtom("a2", "complaint_record")]

\* a9 is the id of no stored atom
Proposals ==
    {SlotProposal("p1", "agent", s, "payload", e, <<"O1">>, t) :
        s \in {"s1", "s2", "s9"},
        e \in {<<>>, <<"a9", "a1">>, <<"a1", "a2">>},
        t \in TransformationLists}

NoReport == QualificationReport(None, None, <<>>, <<>>, <<>>, <<>>)

\* nothing generated, nothing validated
NoTraces == [raised |-> FALSE, error |-> None, value |-> <<>>]

NoValidation == [proposal |-> NoProposal, traces |-> <<>>, valid |-> FALSE]

\* validate_period_contiguity not called yet
NoContiguity == [valid |-> FALSE, issues |-> <<>>]

\* {} : a dict with no keys
EmptyDict == [k \in {} |-> None]

\* no DSL file on disk
NoFiles == EmptyDict

\* compile_file not called yet
NoCompiled == [raised |-> FALSE, error |-> None, value |-> <<>>]

\* the tables after init_db
EmptyStore ==
    [evidence_atoms |-> EmptyDict, proposals |-> EmptyDict,
     adjudications |-> EmptyDict, trace_nodes |-> EmptyDict]

(***************************************************************************)
(* Adjudication: an engine is constructed, a caller adjudicates a proposal *)
(* and then adjudicates the same proposal against the same store again     *)
(***************************************************************************)
InitAdjudication ==
    /\ files = NoFiles
    /\ compiled = NoCompiled
    /\ schedule = None
    /\ \E e \in AdjudicationEngines :
          /\ obligations = e[1]
          /\ mapping = e[2]
          /\ rules = e[3]
          /\ obligation_lookup = build_obligation_lookup(e[1])
    /\ template = AdjudicationTemplate
    /\ evidence_atoms = EvidenceStore
    /\ hash_seed \in {0, 1}
    /\ uuid_counter = 0
    /\ clock = 0
    /\ pc = "idle"
    /\ proposal = NoProposal
    /\ result = NoResult
    /\ previous = NoResult
    /\ report = NoReport
    /\ trace_slot_type = None
    /\ trace_nodes = NoTraces
    /\ trace_complete = NoValidation
    /\ period_list = <<>>
    /\ contiguity = NoContiguity
    /\ db = EmptyStore

\* result = engine.adjudicate(proposal, evidence_atoms)
Adjudicate(p) ==
    /\ pc = "idle"
    /\ proposal' = p
    /\ result' = adjudicate(template, mapping, rules, obligation_lookup, p,
                            evidence_atoms, hash_seed, new_uuid(uuid_counter), clock)
    /\ uuid_counter' = new_uuid(uuid_counter)
    /\ clock' = clock + 1
    /\ previous' = result
    /\ pc' = "done"
    /\ UNCHANGED <<compile_vars, engine_vars, evidence_atoms, hash_seed, report,
                   trace_vars, period_vars, db>>

\* a second engine.adjudicate(proposal, evidence_atoms) on the same inputs
AdjudicateAgain ==
    /\ pc = "done"
    /\ result' = adjudicate(template, mapping, rules, obligation_lookup, proposal,
                            evidence_atoms, hash_seed, new_uuid(uuid_counter), clock)
    /\ uuid_counter' = new_uuid(uuid_counter)
    /\ clock' = clock + 1
    /\ previous' = result
    /\ pc' = "repeated"
    /\ UNCHANGED <<compile_vars, engine_vars, evidence_atoms, hash_seed, report, proposal,
                   trace_vars, period_vars, db>>

NextAdjudication ==
    \/ \E p \in Proposals : Adjudicate(p)
    \/ AdjudicateAgain

SpecAdjudication == InitAdjudication /\ [][NextAdjudication]_vars

(***************************************************************************)
(* Adjudication: properties                                                *)
(***************************************************************************)
Adjudicated == pc \in {"done", "repeated"}

SlotInTemplate == \E i \in DOMAIN template : template[i].slot_id = proposal.slot_id

\* the obligation an id denotes: the last one declared with it
Declared(id) == \E i \in DOMAIN obligations : obligations[i].id = id

ObligationOf(id) ==
    obligations[CHOOSE i \in DOMAIN obligations :
                    /\ obligations[i].id = id
                    /\ \A j \in (i + 1)..Len(obligations) : obligations[j].id # id]

\* the obligations mapped to the proposal's slot
MappedObligations ==
    {ObligationOf(m.obligation_id) :
        m \in {x \in Range(mapping) : /\ proposal.slot_id \in Range(x.slot_ids)
                                      /\ Declared(x.obligation_id)}}

Used == Range(proposal.transformations_used)

ViolatesTransformations(o) ==
    \/ Used \cap Range(o.forbidden_transformations) # {}
    \/ /\ o.allowed_transformations # <<>>
       /\ ~(Used \subseteq Range(o.allowed_transformations))

PresentTypes ==
    {evidence_atoms[a].evidence_type :
        a \in Range(proposal.evidence_atoms) \cap DOMAIN evidence_atoms}

MissingTypes(o) == Range(o.required_evidence_types) \ PresentTypes

ChecksOf(o, check_id) ==
    {c \in Range(result.check_results) :
        c.check_type = "obligation" /\ c.check_id = check_id /\ c.obligation_id = o.id}

ReasonsOf(o, rule_id) ==
    {r \in Range(result.rejection_reasons) :
        r.rule_type = "obligation" /\ r.rule_id = rule_id /\ r.obligation_id = o.id}

\* C1: for a proposal whose slot exists and every obligation o mapped to the
\* slot, the proposal is REJECTED with a TRANSFORMATIONS reason for o when the
\* used transformations meet o's forbidden list, or o's allowed list is
\* non-empty and does not contain them all; otherwise o's transformation
\* check passes.
C1_TransformationRules ==
    (Adjudicated /\ SlotInTemplate) =>
        \A o \in MappedObligations :
            /\ ChecksOf(o, "transformations") # {}
            /\ ViolatesTransformations(o) =>
                  /\ result.status = "REJECTED"
                  /\ ReasonsOf(o, "TRANSFORMATIONS") # {}
                  /\ \A c \in ChecksOf(o, "transformations") : ~c.passed
            /\ ~ViolatesTransformations(o) =>
                  /\ \A c \in ChecksOf(o, "transformations") : c.passed
                  /\ ReasonsOf(o, "TRANSFORMATIONS") = {}

\* a rejection by the allowed list alone: nothing forbidden was used
C1_Witness ==
    /\ Adjudicated /\ SlotInTemplate
    /\ \E o \in MappedObligations :
          /\ Used \cap Range(o.forbidden_transformations) = {}
          /\ o.forbidden_transformations # <<>>
          /\ ViolatesTransformations(o)
          /\ ReasonsOf(o, "TRANSFORMATIONS") # {}
    /\ result.status = "REJECTED"

\* C2: for a proposal whose slot exists and every obligation o mapped to the
\* slot, with missing = o's required evidence types minus the types of the
\* referenced atoms found in the store: o's evidence check fails, and the
\* proposal is REJECTED with an EVIDENCE_TYPES reason listing the missing
\* types, exactly when missing is non-empty and o does not allow an absence
\* statement; with missing non-empty and an absence statement allowed the
\* check passes.
C2_EvidenceRule ==
    (Adjudicated /\ SlotInTemplate) =>
        \A o \in MappedObligations :
            LET fails == MissingTypes(o) # {} /\ ~o.allow_absence_statement
            IN  /\ ChecksOf(o, "evidence_types") # {}
                /\ \A c \in ChecksOf(o, "evidence_types") : c.passed = ~fails
                /\ fails =>
                      /\ result.status = "REJECTED"
                      /\ ReasonsOf(o, "EVIDENCE_TYPES") # {}
                      /\ \A r \in ReasonsOf(o, "EVIDENCE_TYPES") :
                            /\ Range(r.message.items) = MissingTypes(o)
                            /\ Len(r.message.items) = Cardinality(MissingTypes(o))
                /\ ~fails => ReasonsOf(o, "EVIDENCE_TYPES") = {}

\* a waived absence: a referenced atom is not in the store, a required type is
\* missing, and the evidence check passes
C2_Witness ==
    /\ Adjudicated /\ SlotInTemplate
    /\ ~(Range(proposal.evidence_atoms) \subseteq DOMAIN evidence_atoms)
    /\ \E o \in MappedObligations :
          /\ MissingTypes(o) # {}
          /\ o.allow_absence_statement
          /\ \A c \in ChecksOf(o, "evidence_types") : c.passed
    /\ \E o \in MappedObligations :
          /\ Cardinality(MissingTypes(o)) = 1
          /\ ~o.allow_absence_statement
          /\ ReasonsOf(o, "EVIDENCE_TYPES") # {}

FailedChecks ==
    LET failed(c) == ~c.passed
    IN  SelectSeq(result.check_results, failed)

\* the rule id under which a failed check is reported
RuleIdOf(c) ==
    IF c.check_type = "constraint" THEN c.check_id
    ELSE IF c.check_id = "evidence_types" THEN "EVIDENCE_TYPES"
    ELSE IF c.check_id = "time_scope" THEN "TIME_SCOPE"
    ELSE "TRANSFORMATIONS"

\* C3: the status is REJECTED exactly when some rejection reason has a
\* rule_type other than warning, and ACCEPTED otherwise; the rejection reasons
\* are the single entry for a missing slot or, when the slot exists, one entry
\* with a rule_id and the check's message per failed check, in the same order.
C3_VerdictAndReasons ==
    Adjudicated =>
        /\ result.status \in {"ACCEPTED", "REJECTED"}
        /\ result.status = "REJECTED" <=>
              \E r \in Range(result.rejection_reasons) : r.rule_type # "warning"
        /\ ~SlotInTemplate =>
              /\ Len(result.rejection_reasons) = 1
              /\ result.rejection_reasons[1].rule_id = "SLOT_EXISTS"
        /\ SlotInTemplate =>
              /\ Len(result.rejection_reasons) = Len(FailedChecks)
              /\ \A i \in DOMAIN FailedChecks :
                    LET r == result.rejection_reasons[i]
                        c == FailedChecks[i]
                    IN  /\ r.rule_id = RuleIdOf(c)
                        /\ r.rule_id # None
                        /\ r.rule_type = c.check_type
                        /\ r.obligation_id = c.obligation_id
                        /\ r.message = c.message

\* several failed checks among passed ones
C3_Witness ==
    /\ Adjudicated /\ SlotInTemplate
    /\ Len(FailedChecks) >= 3
    /\ Len(result.check_results) > Len(FailedChecks) + 3
    /\ result.status = "REJECTED"

\* C4: a proposal for a slot that is not in the template is REJECTED with
\* exactly one rejection reason, SLOT_EXISTS of type structural, and no check
\* result at all.
C4_MissingSlot ==
    (Adjudicated /\ ~SlotInTemplate) =>
        /\ result.status = "REJECTED"
        /\ Len(result.rejection_reasons) = 1
        /\ result.rejection_reasons[1].rule_id = "SLOT_EXISTS"
        /\ result.rejection_reasons[1].rule_type = "structural"
        /\ result.check_results = <<>>

\* the missing slot is listed by the mapping for a declared obligation whose
\* rules the proposal violates, and a constraint is triggered on submission
C4_Witness ==
    /\ Adjudicated /\ ~SlotInTemplate
    /\ \E o \in MappedObligations :
          ViolatesTransformations(o) /\ MissingTypes(o) # {}
    /\ \E i \in DOMAIN rules : rules[i].trigger = "on_proposal_submit"
    /\ result.check_results = <<>>

Satisfies(o) ==
    /\ MissingTypes(o) = {}
    /\ Used \cap Range(o.forbidden_transformations) = {}
    /\ \/ o.allowed_transformations = <<>>
       \/ Used \subseteq Range(o.allowed_transformations)

\* C5: a proposal whose slot exists and that, for every obligation mapped to
\* the slot, covers the required evidence types, uses no forbidden
\* transformation and only allowed ones (or the allowed list is empty) is
\* ACCEPTED with no rejection reason; a proposal declaring no transformation
\* is included.
C5_AcceptsValid ==
    (Adjudicated /\ SlotInTemplate /\ \A o \in MappedObligations : Satisfies(o)) =>
        /\ result.status = "ACCEPTED"
        /\ result.rejection_reasons = <<>>

\* accepted with no transformation declared, against an obligation that
\* requires evidence and restricts transformations, constraints present
C5_Witness ==
    /\ Adjudicated /\ SlotInTemplate
    /\ proposal.transformations_used = <<>>
    /\ \E o \in MappedObligations :
          /\ Satisfies(o)
          /\ o.required_evidence_types # <<>>
          /\ o.allowed_transformations # <<>>
    /\ \A o \in MappedObligations : Satisfies(o)
    /\ \E i \in DOMAIN rules : rules[i].condition = "no_invention"
    /\ result.status = "ACCEPTED"

QualificationObligations ==
    {Obligation("O1", TRUE, <<>>, <<>>, <<>>, None, <<"narrative">>, FALSE),
     Obligation("O1", FALSE, <<>>, <<>>, <<>>, None, <<"table">>, FALSE),
     Obligation("O2", TRUE, <<>>, <<>>, <<>>, None, <<>>, FALSE),
     Obligation("O2", TRUE, <<>>, <<>>, <<>>, None, <<"kv", "table_ref">>, FALSE),
     Obligation("O2", FALSE, <<>>, <<>>, <<>>, None, <<"narrative">>, FALSE)}

\* O9 is the id of no obligation; s9 is the id of no slot
QualificationMappings ==
    {SlotMapping("O1", <<"s1">>),
     SlotMapping("O1", <<>>),
     SlotMapping("O1", <<"s2">>),
     SlotMapping("O2", <<"s9", "s2", "s9">>),
     SlotMapping("O2", <<"s1", "s1">>),
     SlotMapping("O9", <<"s1", "s9">>)}

QualificationTemplates ==
    {<<Slot("s1", "narrative"), Slot("s2", "table")>>,
     <<Slot("s2", "narrative"), Slot("s1", "table")>>,
     <<Slot("s1", "kv")>>}

InitQualification ==
    /\ files = NoFiles
    /\ compiled = NoCompiled
    /\ schedule = None
    /\ obligations \in SeqsUpTo(QualificationObligations, MaxObligations)
    /\ mapping \in SeqsUpTo(QualificationMappings, MaxMappings)
    /\ template \in QualificationTemplates
    /\ rules = <<>>
    /\ obligation_lookup = build_obligation_lookup(obligations)
    /\ evidence_atoms = EvidenceStore
    /\ hash_seed = 0
    /\ uuid_counter = 0
    /\ clock = 0
    /\ pc = "idle"
    /\ proposal = NoProposal
    /\ result = NoResult
    /\ previous = NoResult
    /\ report = NoReport
    /\ trace_slot_type = None
    /\ trace_nodes = NoTraces
    /\ trace_complete = NoValidation
    /\ period_list = <<>>
    /\ contiguity = NoContiguity
    /\ db = EmptyStore

\* report = qualify_template(compiled_obligations, template_schema, mapping)
Qualify ==
    /\ pc = "idle"
    /\ report' = qualify_template(obligations, "test_template", template, mapping)
    /\ pc' = "qualified"
    /\ UNCHANGED <<compile_vars, engine_vars, evidence_atoms, hash_seed, uuid_counter, clock,
                   proposal, result, previous, trace_vars, period_vars, db>>

NextQualification == Qualify

SpecQualification == InitQualification /\ [][NextQualification]_vars

(***************************************************************************)
(* Qualification: properties                                               *)
(***************************************************************************)
Qualified == pc = "qualified"

TemplateSlotIds == {template[i].slot_id : i \in DOMAIN template}

SlotTypeOf(slot_id) ==
    template[CHOOSE i \in DOMAIN template : template[i].slot_id = slot_id].slot_type

\* the compatibility table: narrative -> {narrative}; table -> {table,
\* table_ref}; kv -> {kv}
CompatibleWith(slot_type) ==
    CASE slot_type = "narrative" -> {"narrative"}
      [] slot_type = "table" -> {"table", "table_ref"}
      [] slot_type = "kv" -> {"kv"}
      [] OTHER -> {}

\* the (mapping entry, position in its slot_ids) occurrences of slot ids
Occurrences ==
    UNION {{<<j, k>> : k \in DOMAIN mapping[j].slot_ids} : j \in DOMAIN mapping}

OccursBefore(a, b) == a[1] < b[1] \/ (a[1] = b[1] /\ a[2] <= b[2])

\* the n-th occurrence of P in mapping declaration order
NthOccurrence(P, n) ==
    CHOOSE a \in P : Cardinality({b \in P : OccursBefore(b, a)}) = n

SlotIdAt(a) == mapping[a[1]].slot_ids[a[2]]

ObligationIdAt(a) == mapping[a[1]].obligation_id

DanglingOccurrences == {a \in Occurrences : SlotIdAt(a) \notin TemplateSlotIds}

IncompatibleOccurrences ==
    {a \in Occurrences :
        /\ Declared(ObligationIdAt(a))
        /\ ObligationOf(ObligationIdAt(a)).allowed_output_types # <<>>
        /\ SlotIdAt(a) \in TemplateSlotIds
        /\ CompatibleWith(SlotTypeOf(SlotIdAt(a)))
               \cap Range(ObligationOf(ObligationIdAt(a)).allowed_output_types) = {}}

\* positions of the mandatory obligations whose id no mapping entry names
UnmappedMandatory ==
    {i \in DOMAIN obligations :
        /\ obligations[i].mandatory
        /\ \A j \in DOMAIN mapping : mapping[j].obligation_id # obligations[i].id}

IssuesOfType(t) ==
    LET is(i) == i.issue_type = t
    IN  SelectSeq(report.issues, is)

C8_MandatoryHasSlot ==
    Qualified =>
        \A i \in DOMAIN obligations :
            obligations[i].mandatory =>
                LET assigned == \E j \in DOMAIN mapping :
                                    /\ mapping[j].obligation_id = obligations[i].id
                                    /\ mapping[j].slot_ids # <<>>
                IN  /\ report.status = "PASS" => assigned
                    /\ ~assigned =>
                          /\ report.status = "FAIL"
                          /\ obligations[i].id
                                 \in Range(report.missing_mandatory_obligations)

\* C9: an incompatible_type issue is reported for exactly the (mapping entry,
\* slot id) occurrences whose obligation is declared with a non-empty
\* allowed_output_types and whose slot exists with a type whose compatibility
\* set is disjoint from them; an obligation with empty allowed_output_types
\* never produces the issue.
C9_IncompatibleTypeIssues ==
    Qualified =>
        /\ report.incompatible_slot_types = IssuesOfType("incompatible_type")
        /\ Len(report.incompatible_slot_types) = Cardinality(IncompatibleOccurrences)
        /\ {<<x.obligation_id, x.slot_id>> : x \in Range(report.incompatible_slot_types)}
              = {<<ObligationIdAt(a), SlotIdAt(a)>> : a \in IncompatibleOccurrences}
        /\ \A x \in Range(report.incompatible_slot_types) :
              /\ Declared(x.obligation_id)
              /\ ObligationOf(x.obligation_id).allowed_output_types # <<>>

\* one slot reported; another slot compatible only through the second allowed
\* output type of its obligation
C9_Witness ==
    /\ Qualified
    /\ report.incompatible_slot_types # <<>>
    /\ \E a \in Occurrences \ IncompatibleOccurrences :
          /\ Declared(ObligationIdAt(a))
          /\ SlotIdAt(a) \in TemplateSlotIds
          /\ Len(ObligationOf(ObligationIdAt(a)).allowed_output_types) = 2
          /\ ObligationOf(ObligationIdAt(a)).allowed_output_types[1]
                 \notin CompatibleWith(SlotTypeOf(SlotIdAt(a)))

IssueRank(x) ==
    CASE x.issue_type = "missing_mandatory" -> 1
      [] x.issue_type = "dangling_mapping" -> 2
      [] x.issue_type = "incompatible_type" -> 3
      [] OTHER -> 0

\* C10: all three checks always run; the issues list is the missing_mandatory
\* issues in obligation declaration order, then one dangling_mapping issue per
\* (mapping entry, slot id) occurrence whose slot is not in the template, in
\* mapping declaration order, then the incompatible_type issues in mapping
\* declaration order.
C10_AllChecksInOrder ==
    Qualified =>
        LET missing == IssuesOfType("missing_mandatory")
            dangling == IssuesOfType("dangling_mapping")
            incompatible == IssuesOfType("incompatible_type")
        IN  /\ \A i, j \in DOMAIN report.issues :
                  i < j => IssueRank(report.issues[i]) <= IssueRank(report.issues[j])
            /\ \A i \in DOMAIN report.issues : IssueRank(report.issues[i]) # 0
            /\ Len(missing) = Cardinality(UnmappedMandatory)
            /\ \A n \in DOMAIN missing :
                  missing[n].obligation_id =
                      obligations[CHOOSE i \in UnmappedMandatory :
                          Cardinality({k \in UnmappedMandatory : k <= i}) = n].id
            /\ Len(dangling) = Cardinality(DanglingOccurrences)
            /\ \A n \in DOMAIN dangling :
                  /\ dangling[n].obligation_id =
                         ObligationIdAt(NthOccurrence(DanglingOccurrences, n))
                  /\ dangling[n].slot_id =
                         SlotIdAt(NthOccurrence(DanglingOccurrences, n))
            /\ Len(incompatible) = Cardinality(IncompatibleOccurrences)
            /\ \A n \in DOMAIN incompatible :
                  /\ incompatible[n].obligation_id =
                         ObligationIdAt(NthOccurrence(IncompatibleOccurrences, n))
                  /\ incompatible[n].slot_id =
                         SlotIdAt(NthOccurrence(IncompatibleOccurrences, n))
            /\ MapSeq(missing, LAMBDA x : x.obligation_id)
                  = report.missing_mandatory_obligations
            /\ MapSeq(dangling, LAMBDA x : x.slot_id) = report.dangling_mappings

\* violations of all three kinds at once, two of them dangling
C10_Witness ==
    /\ Qualified
    /\ UnmappedMandatory # {}
    /\ Cardinality(DanglingOccurrences) >= 2
    /\ IncompatibleOccurrences # {}
    /\ Len(report.issues) >= 4

(***************************************************************************)
(* core/trace.py: trace generation.  A text is the sequence of its         *)
(* characters.  A raise is a record that carries the exception and no      *)
(* value.                                                                  *)
(***************************************************************************)
Return(value) == [raised |-> FALSE, error |-> None, value |-> value]

Raise(error) == [raised |-> TRUE, error |-> error, value |-> <<>>]

\* d.get(key, default)
dict_get(d, key, default) == IF key \in DOMAIN d THEN d[key] ELSE default

\* the characters str.strip() removes
Whitespace == {" ", "\n"}

RECURSIVE lstrip(_)
lstrip(text) ==
    IF text # <<>> /\ Head(text) \in Whitespace THEN lstrip(Tail(text)) ELSE text

RECURSIVE rstrip(_)
rstrip(text) ==
    IF text # <<>> /\ text[Len(text)] \in Whitespace
    THEN rstrip(SubSeq(text, 1, Len(text) - 1))
    ELSE text

\* text.strip()
strip(text) == rstrip(lstrip(text))

\* text.split("\n\n"): the occurrences of the separator are found left to
\* right and do not overlap
RECURSIVE split(_)
split(text) ==
    LET hits == {i \in 1..(Len(text) - 1) : text[i] = "\n" /\ text[i + 1] = "\n"}
    IN  IF hits = {} THEN <<text>>
        ELSE LET i == CHOOSE h \in hits : \A g \in hits : h <= g
             IN  <<SubSeq(text, 1, i - 1)>> \o split(SubSeq(text, i + 2, Len(text)))

\* [p.strip() for p in content.split("\n\n") if p.strip()], then the
\* whole-text fallback
paragraphs_of(content) ==
    LET nonempty(x) == strip(x) # <<>>
        fragments == MapSeq(SelectSeq(split(content), nonempty), strip)
    IN  IF fragments = <<>> /\ strip(content) # <<>>
        THEN <<strip(content)>>
        ELSE fragments

TraceNode(trace_id, adjudication_id, slot_id, fragment_type, fragment_index, fragment_content, atoms, transformations, regulatory_basis, agent_id, created_at) ==
    [trace_id |-> trace_id, adjudication_id |-> adjudication_id,
     slot_id |-> slot_id, fragment_type |-> fragment_type,
     fragment_index |-> fragment_index, fragment_content |-> fragment_content,
     evidence_atoms |-> atoms, transformations |-> transformations,
     regulatory_basis |-> regulatory_basis, agent_id |-> agent_id,
     created_at |-> created_at]

\* Variant of trace_id_of with a fault: the index is left out.
trace_id_of_adjudication(adjudication_id, idx) == <<adjudication_id, "-", 0>>

\* f"{adjudication.adjudication_id}-{idx}"
trace_id_of(adjudication_id, idx) == <<adjudication_id, "-", idx>>

\* the node built for the fragment at position idx (from 0); each node draws
\* datetime.utcnow() anew
node_of(p, adjudication, fragment_type, idx, content, now) ==
    TraceNode(trace_id_of(adjudication.adjudication_id, idx),
              adjudication.adjudication_id, p.slot_id, fragment_type, idx, content,
              p.evidence_atoms, p.transformations_used, p.claimed_basis,
              p.agent_id, now + idx)

_trace_narrative(p, adjudication, now) ==
    LET paragraphs == paragraphs_of(dict_get(p.payload, "text", <<>>))
    IN  [k \in 1..Len(paragraphs) |->
            node_of(p, adjudication, "paragraph", k - 1, paragraphs[k], now)]

\* A table cell is a dict (its entries) or any other value; a kv payload's
\* pairs are a dict (its items in insertion order) or a list of dicts.
DictCell(entries) == [isdict |-> TRUE, entries |-> entries]

ScalarCell(value) == [isdict |-> FALSE, value |-> value]

DictPairs(items) == [isdict |-> TRUE, items |-> items]

ListPairs(entries) == [isdict |-> FALSE, entries |-> entries]

\* str(x): a string is itself, None is the text "None"
str(x) == IF x = None THEN "None" ELSE x

\* str(cell.get("value", "")) if isinstance(cell, dict) else str(cell)
cell_content(cell) ==
    IF cell.isdict THEN <<str(dict_get(cell.entries, "value", ""))>>
                   ELSE <<str(cell.value)>>

\* the cells of the rows, row after row
RECURSIVE cells_of(_)
cells_of(rows) ==
    IF rows = <<>> THEN <<>>
    ELSE dict_get(Head(rows), "cells", <<>>) \o cells_of(Tail(rows))

\* the value cell_idx has when the cell at position k (from 1) of cells_of is
\* reached, had the counter been reset at each row
RECURSIVE column_index(_, _)
column_index(rows, k) ==
    LET cells == dict_get(Head(rows), "cells", <<>>)
    IN  IF k <= Len(cells) THEN k - 1
        ELSE column_index(Tail(rows), k - Len(cells))

\* Variant of _trace_table with a fault: the index restarts at each row.
_trace_table_row_index(p, adjudication, now) ==
    LET rows  == dict_get(p.payload, "rows", <<>>)
        cells == cells_of(rows)
    IN  [k \in 1..Len(cells) |->
            node_of(p, adjudication, "cell", column_index(rows, k),
                    cell_content(cells[k]), now)]

_trace_table(p, adjudication, now) ==
    LET cells == cells_of(dict_get(p.payload, "rows", <<>>))
    IN  [k \in 1..Len(cells) |->
            node_of(p, adjudication, "cell", k - 1, cell_content(cells[k]), now)]

\* len(kv_pairs)
pairs_len(kv_pairs) ==
    IF kv_pairs.isdict THEN Len(kv_pairs.items) ELSE Len(kv_pairs.entries)

\* list(kv_pairs.items()) or [(p.get("key"), p.get("value")) for p in kv_pairs]
kv_items(kv_pairs) ==
    LET pair(d) == <<dict_get(d, "key", None), dict_get(d, "value", None)>>
    IN  IF kv_pairs.isdict THEN kv_pairs.items ELSE MapSeq(kv_pairs.entries, pair)

\* f"{key}: {value}"
kv_content(item) == <<str(item[1]), ": ", str(item[2])>>

_trace_kv(p, adjudication, now) ==
    LET items == kv_items(dict_get(p.payload, "pairs", DictPairs(<<>>)))
    IN  [k \in 1..Len(items) |->
            node_of(p, adjudication, "kv_pair", k - 1, kv_content(items[k]), now)]

\* Variant of generate_trace with a fault: the status is not looked at.
generate_trace_unguarded(p, adjudication, slot_type, now) ==
    IF slot_type = "narrative" THEN Return(_trace_narrative(p, adjudication, now))
    ELSE IF slot_type = "table" THEN Return(_trace_table(p, adjudication, now))
    ELSE IF slot_type = "kv" THEN Return(_trace_kv(p, adjudication, now))
    ELSE Raise("ValueError")

generate_trace(p, adjudication, slot_type, now) ==
    IF adjudication.status # "ACCEPTED" THEN Raise("ValueError")
    ELSE IF slot_type = "narrative" THEN Return(_trace_narrative(p, adjudication, now))
    ELSE IF slot_type = "table" THEN Return(_trace_table(p, adjudication, now))
    ELSE IF slot_type = "kv" THEN Return(_trace_kv(p, adjudication, now))
    ELSE Raise("ValueError")

\* sum(len(row.get("cells", [])) for row in rows)
RECURSIVE total_cells(_)
total_cells(rows) ==
    IF rows = <<>> THEN 0
    ELSE Len(dict_get(Head(rows), "cells", <<>>)) + total_cells(Tail(rows))

validate_trace_completeness(p, traces, slot_type) ==
    IF traces = <<>> THEN FALSE
    ELSE IF slot_type = "narrative"
    THEN Len(traces) >= Len(paragraphs_of(dict_get(p.payload, "text", <<>>)))
    ELSE IF slot_type = "table"
    THEN Len(traces) >= total_cells(dict_get(p.payload, "rows", <<>>))
    ELSE IF slot_type = "kv"
    THEN Len(traces) >= pairs_len(dict_get(p.payload, "pairs", DictPairs(<<>>)))
    ELSE FALSE

(***************************************************************************)
(* Trace generation: the payloads, proposals and adjudications drawn from  *)
(***************************************************************************)
MaxText == 6
MaxRows == 2

Alphabet == {"a", " ", "\n"}

\* the texts of the narrative test payloads, over the alphabet and a second
\* letter
FixtureTexts ==
    {<<"a", "\n", "\n", "b", "\n", "\n", "a">>,
     <<"a", "\n", "\n", "\n", "\n", "b">>,
     <<"a", " ", "b", "\n", " ", "\n", "\n", "b">>}

Texts == SeqsUpTo(Alphabet, MaxText) \cup FixtureTexts

Cells ==
    {DictCell([value |-> "A1"]), DictCell(EmptyDict), ScalarCell("B1"), ScalarCell(None)}

Rows ==
    {EmptyDict, [cells |-> <<>>]}
    \cup {[cells |-> <<c>>] : c \in Cells}
    \cup {[cells |-> <<DictCell([value |-> "A1"]), c>>] : c \in Cells}

PairLists ==
    {DictPairs(<<>>),
     DictPairs(<<<<"key1", "value1">>>>),
     DictPairs(<<<<"key2", "value2">>, <<"key1", "value1">>>>),
     DictPairs(<<<<"key1", "value1">>, <<"key2", "value2">>, <<"key3", "value1">>>>),
     ListPairs(<<>>),
     ListPairs(<<[key |-> "key1", value |-> "value1"]>>),
     ListPairs(<<[key |-> "key1", value |-> "value1"], [key |-> "key1"]>>),
     ListPairs(<<EmptyDict, [value |-> "value2"], [key |-> "key1", value |-> "value1"]>>)}

Payloads ==
    {EmptyDict}
    \cup {[text |-> t] : t \in Texts}
    \cup {[rows |-> r] : r \in SeqsUpTo(Rows, MaxRows)}
    \cup {[pairs |-> k] : k \in PairLists}
    \cup {[text |-> <<"a", "\n", "\n", "a">>,
           rows |-> <<[cells |-> <<ScalarCell("B1")>>]>>,
           pairs |-> DictPairs(<<<<"key1", "value1">>>>)]}

TraceProposals ==
    {SlotProposal("test_proposal", "test_agent", "test_slot", payload,
                  <<"atom1", "atom2">>, <<"EU.PSUR.CONTENT.BENEFIT_RISK">>,
                  <<"summarize">>) : payload \in Payloads}
    \cup {SlotProposal("p2", "agent", "s1", payload, <<>>, <<>>, <<>>) :
            payload \in {[text |-> <<"a">>], [rows |-> <<[cells |-> <<ScalarCell("B1")>>]>>]}}

TraceAdjudications ==
    {AdjudicationResult("test_adj", "test_proposal", "ACCEPTED", <<>>, <<>>, 0),
     AdjudicationResult("test_adj", "test_proposal", "REJECTED", <<>>,
        <<RejectionReason("SLOT_EXISTS", "structural", None,
                          Message("Slot does not exist in template", <<"test_slot">>))>>, 0)}

\* the proposals validate_trace_completeness is called with besides the
\* one the traces were generated for
ValidationProposals ==
    {SlotProposal("test_proposal", "test_agent", "test_slot", payload,
                  <<"atom1">>, <<>>, <<"summarize">>) :
        payload \in {EmptyDict,
                     [text |-> <<"a", "\n", "\n", "b">>],
                     [rows |-> <<[cells |-> <<ScalarCell("B1")>>]>>],
                     [pairs |-> ListPairs(<<EmptyDict, EmptyDict>>)]}}

InitTrace ==
    /\ files = NoFiles
    /\ compiled = NoCompiled
    /\ schedule = None
    /\ proposal \in TraceProposals
    /\ result \in TraceAdjudications
    /\ trace_slot_type \in Range(SlotTypes)
    /\ obligations = <<>>
    /\ rules = <<>>
    /\ template = <<>>
    /\ mapping = <<>>
    /\ obligation_lookup = build_obligation_lookup(<<>>)
    /\ evidence_atoms = EvidenceStore
    /\ hash_seed = 0
    /\ uuid_counter = 0
    /\ clock = 0
    /\ pc = "idle"
    /\ previous = NoResult
    /\ report = NoReport
    /\ trace_nodes = NoTraces
    /\ trace_complete = NoValidation
    /\ period_list = <<>>
    /\ contiguity = NoContiguity
    /\ db = EmptyStore

\* traces = generator.generate_trace(proposal, adjudication, slot_type)
GenerateTrace ==
    /\ pc = "idle"
    /\ trace_nodes' = generate_trace(proposal, result, trace_slot_type, clock)
    /\ clock' = clock + Len(trace_nodes'.value)
    /\ pc' = IF trace_nodes'.raised THEN "raised" ELSE "traced"
    /\ UNCHANGED <<compile_vars, engine_vars, evidence_atoms, hash_seed, uuid_counter, proposal,
                   result, previous, report, trace_slot_type, trace_complete,
                   period_vars, db>>

\* validate_trace_completeness(q, traces[:n], slot_type)
ValidateTrace(q, n) ==
    /\ pc = "traced"
    /\ n \in 0..Len(trace_nodes.value)
    /\ LET traces == SubSeq(trace_nodes.value, 1, n)
       IN  trace_complete' =
              [proposal |-> q, traces |-> traces,
               valid |-> validate_trace_completeness(q, traces, trace_slot_type)]
    /\ pc' = "validated"
    /\ UNCHANGED <<compile_vars, engine_vars, evidence_atoms, hash_seed, uuid_counter, clock,
                   proposal, result, previous, report, trace_slot_type, trace_nodes,
                   period_vars, db>>

NextTrace ==
    \/ GenerateTrace
    \/ \E q \in ValidationProposals \cup {proposal} :
          \E n \in 0..Len(trace_nodes.value) : ValidateTrace(q, n)

SpecTrace == InitTrace /\ [][NextTrace]_vars

(***************************************************************************)
(* Trace generation: properties                                            *)
(***************************************************************************)
TraceCalled == pc \in {"raised", "traced", "validated"}

Traced == pc \in {"traced", "validated"}

Nodes == trace_nodes.value

\* C11: generate_trace refuses every adjudication whose status is not
\* ACCEPTED, whatever the slot type and the payload: it raises and no
\* TraceNode is returned.
C11_RefusesRejected ==
    (TraceCalled /\ result.status # "ACCEPTED") =>
        /\ pc = "raised"
        /\ trace_nodes.raised
        /\ trace_nodes.error = "ValueError"
        /\ Nodes = <<>>

\* a rejected adjudication of a table proposal with cells was refused
C11_Witness ==
    /\ pc = "raised"
    /\ result.status = "REJECTED"
    /\ trace_slot_type = "table"
    /\ "rows" \in DOMAIN proposal.payload
    /\ total_cells(proposal.payload.rows) > 0

\* the lines of a text: the pieces between its newlines
RECURSIVE LinesOf(_)
LinesOf(text) ==
    LET hits == {i \in 1..Len(text) : text[i] = "\n"}
    IN  IF hits = {} THEN <<text>>
        ELSE LET i == CHOOSE h \in hits : \A g \in hits : h <= g
             IN  <<SubSeq(text, 1, i - 1)>> \o LinesOf(SubSeq(text, i + 1, Len(text)))

\* the paragraphs of a text: the maximal runs of lines that are not empty
\* after trimming, each run joined by newlines and trimmed.  cur is the run
\* being read (empty when between paragraphs).
RECURSIVE ParagraphRuns(_, _)
ParagraphRuns(lines, cur) ==
    LET closed == IF cur = <<>> THEN <<>> ELSE <<strip(cur)>>
    IN  IF lines = <<>> THEN closed
        ELSE IF strip(Head(lines)) = <<>>
        THEN closed \o ParagraphRuns(Tail(lines), <<>>)
        ELSE ParagraphRuns(Tail(lines),
                           IF cur = <<>> THEN Head(lines)
                           ELSE cur \o <<"\n">> \o Head(lines))

BlankLineParagraphs(text) == ParagraphRuns(LinesOf(text), <<>>)

\* C12: for a narrative payload whose text is N non-empty paragraphs
\* separated by blank-line boundaries (a line holding only whitespace is a
\* boundary too), generate_trace emits exactly N nodes of type paragraph,
\* the i-th holding the i-th paragraph trimmed; text that is empty after
\* trimming yields no node.
C12_ParagraphNodes ==
    (Traced /\ trace_slot_type = "narrative" /\ "text" \in DOMAIN proposal.payload) =>
        LET paragraphs == BlankLineParagraphs(proposal.payload.text)
        IN  /\ Len(Nodes) = Len(paragraphs)
            /\ \A i \in 1..Len(paragraphs) :
                  /\ Nodes[i].fragment_type = "paragraph"
                  /\ Nodes[i].fragment_content = paragraphs[i]

\* the positions (row, cell) of a table payload's cells
CellPositions(rows) ==
    UNION {{<<r, c>> : c \in 1..Len(dict_get(rows[r], "cells", <<>>))} : r \in 1..Len(rows)}

\* how many cells come before position a in row order then cell order
CellRank(rows, a) ==
    Cardinality({b \in CellPositions(rows) :
                    b[1] < a[1] \/ (b[1] = a[1] /\ b[2] < a[2])})

\* C13: a table payload with M cells over all rows yields exactly M nodes of
\* type cell in row order then cell order, with one index spanning the
\* rows; a kv payload with K pairs, map-shaped or list-shaped, yields
\* exactly K nodes of type kv_pair in payload order.
C13_StructuredNodes ==
    /\ (Traced /\ trace_slot_type = "table" /\ "rows" \in DOMAIN proposal.payload) =>
          LET rows == proposal.payload.rows
          IN  /\ Len(Nodes) = Cardinality(CellPositions(rows))
              /\ \A a \in CellPositions(rows) :
                    LET node == Nodes[CellRank(rows, a) + 1]
                    IN  /\ node.fragment_type = "cell"
                        /\ node.fragment_index = CellRank(rows, a)
                        /\ node.fragment_content = cell_content(rows[a[1]].cells[a[2]])
    /\ (Traced /\ trace_slot_type = "kv" /\ "pairs" \in DOMAIN proposal.payload) =>
          LET pairs == proposal.payload.pairs
              K == IF pairs.isdict THEN Len(pairs.items) ELSE Len(pairs.entries)
              key(k) == IF pairs.isdict THEN pairs.items[k][1]
                        ELSE dict_get(pairs.entries[k], "key", None)
          IN  /\ Len(Nodes) = K
              /\ \A k \in 1..K :
                    /\ Nodes[k].fragment_type = "kv_pair"
                    /\ Nodes[k].fragment_index = k - 1
                    /\ Nodes[k].fragment_content[1] = key(k)

\* a table of two rows with two cells and one cell gave three nodes, the
\* last one numbered 2
C13_Witness ==
    /\ Traced
    /\ trace_slot_type = "table"
    /\ "rows" \in DOMAIN proposal.payload
    /\ Len(proposal.payload.rows) = 2
    /\ Len(dict_get(proposal.payload.rows[1], "cells", <<>>)) = 2
    /\ Len(dict_get(proposal.payload.rows[2], "cells", <<>>)) = 1
    /\ Len(Nodes) = 3
    /\ Nodes[3].fragment_index = 2

\* C14: every node carries the proposal's evidence_atoms,
\* transformations_used, claimed_basis (as regulatory_basis), agent_id and
\* slot_id and the adjudication's id; the k-th node (from 0) has
\* fragment_index k and trace id <adjudication_id>-k, so the trace ids of
\* one call are pairwise distinct.
C14_NodeFields ==
    Traced =>
        /\ \A k \in 1..Len(Nodes) :
              /\ Nodes[k].evidence_atoms = proposal.evidence_atoms
              /\ Nodes[k].transformations = proposal.transformations_used
              /\ Nodes[k].regulatory_basis = proposal.claimed_basis
              /\ Nodes[k].agent_id = proposal.agent_id
              /\ Nodes[k].slot_id = proposal.slot_id
              /\ Nodes[k].adjudication_id = result.adjudication_id
              /\ Nodes[k].fragment_index = k - 1
              /\ Nodes[k].trace_id = <<result.adjudication_id, "-", k - 1>>
        /\ \A j, k \in 1..Len(Nodes) : j # k => Nodes[j].trace_id # Nodes[k].trace_id

\* three paragraphs of a proposal with evidence and a regulatory basis were
\* traced
C14_Witness ==
    /\ Traced
    /\ trace_slot_type = "narrative"
    /\ Len(Nodes) = 3
    /\ proposal.evidence_atoms = <<"atom1", "atom2">>
    /\ proposal.claimed_basis # <<>>

\* C15: the traces generate_trace returns for a proposal, an accepted
\* adjudication and a slot type pass validate_trace_completeness for the
\* same proposal and slot type.
C15_GeneratedIsComplete ==
    (pc = "validated" /\ trace_complete.proposal = proposal
                      /\ trace_complete.traces = Nodes) =>
        trace_complete.valid

\* the number of fragments of a proposal's payload under the rules of
\* generate_trace
ExpectedCount(q, slot_type) ==
    Len(generate_trace(q, AdjudicationResult("test_adj", q.proposal_id, "ACCEPTED",
                                             <<>>, <<>>, 0), slot_type, 0).value)

\* C16: validate_trace_completeness returns true exactly when the number of
\* traces is at least the expected fragment count of the payload; an empty
\* trace list with a payload of at least one fragment is invalid.
C16_CompleteIffEnough ==
    pc = "validated" =>
        LET expected == ExpectedCount(trace_complete.proposal, trace_slot_type)
        IN  /\ trace_complete.valid <=> Len(trace_complete.traces) >= expected
            /\ (trace_complete.traces = <<>> /\ expected > 0) => ~trace_complete.valid

(***************************************************************************)
(* core/types.py, rules/engine.py: PSUR periods.  A date is its day        *)
(* number; timedelta(days=1) is 1.                                         *)
(***************************************************************************)
PSURPeriod(period_id, psur_ref, start_date, end_date, jurisdiction, device_class) ==
    [period_id |-> period_id, psur_ref |-> psur_ref, start_date |-> start_date,
     end_date |-> end_date, jurisdiction |-> jurisdiction,
     device_class |-> device_class]

\* self.overlaps(other)
overlaps(self, other) ==
    self.start_date <= other.end_date /\ other.start_date <= self.end_date

\* Variant of has_gap with a fault: only a start later than expected counts.
has_gap_later_only(self, previous_period) ==
    LET expected_start == previous_period.end_date + 1
    IN  self.start_date > expected_start

\* self.has_gap(previous)
has_gap(self, previous_period) ==
    LET expected_start == previous_period.end_date + 1
    IN  self.start_date # expected_start

\* the list with period put after the last element that does not start later
RECURSIVE insert_by_start_date(_, _)
insert_by_start_date(sorted_periods, period) ==
    IF sorted_periods = <<>> THEN <<period>>
    ELSE IF Head(sorted_periods).start_date <= period.start_date
    THEN <<Head(sorted_periods)>> \o insert_by_start_date(Tail(sorted_periods), period)
    ELSE <<period>> \o sorted_periods

\* Variant of sorted_by_start_date with a fault: the list is not sorted.
unsorted(periods) == periods

\* sorted(periods, key=lambda p: p.start_date): stable
RECURSIVE sorted_by_start_date(_)
sorted_by_start_date(periods) ==
    IF periods = <<>> THEN <<>>
    ELSE insert_by_start_date(
            sorted_by_start_date(SubSeq(periods, 1, Len(periods) - 1)),
            periods[Len(periods)])

\* the overlap issues of the periods at positions i.. against every other
\* position, in the order of the two loops
RECURSIVE overlap_issues(_, _, _)
overlap_issues(sorted_periods, i, j) ==
    IF i > Len(sorted_periods) THEN <<>>
    ELSE IF j > Len(sorted_periods) THEN overlap_issues(sorted_periods, i + 1, 1)
    ELSE (IF i # j /\ overlaps(sorted_periods[i], sorted_periods[j])
          THEN <<Message("Period overlaps with",
                         <<sorted_periods[i].period_id, sorted_periods[j].period_id>>)>>
          ELSE <<>>)
         \o overlap_issues(sorted_periods, i, j + 1)

\* the gap issues of the adjacent pairs from position i on
RECURSIVE gap_issues(_, _)
gap_issues(sorted_periods, i) ==
    IF i > Len(sorted_periods) THEN <<>>
    ELSE LET current  == sorted_periods[i]
             earlier  == sorted_periods[i - 1]
             expected == earlier.end_date + 1
         IN  (IF has_gap(current, earlier)
              THEN <<Message("Gap between",
                             <<earlier.period_id, earlier.end_date, current.period_id,
                               current.start_date, expected>>)>>
              ELSE <<>>)
             \o gap_issues(sorted_periods, i + 1)

validate_period_contiguity(periods) ==
    IF periods = <<>> THEN [valid |-> TRUE, issues |-> <<>>]
    ELSE LET sorted_periods == sorted_by_start_date(periods)
             issues == overlap_issues(sorted_periods, 1, 1) \o gap_issues(sorted_periods, 2)
         IN  [valid |-> Len(issues) = 0, issues |-> issues]

(***************************************************************************)
(* Period contiguity: the period lists drawn from; a period may end before *)
(* it starts, the model class does not order its dates                     *)
(***************************************************************************)
MaxPeriods == 3
MaxDay == 3

\* (start_date, end_date) of a period
Dates == (1..MaxDay) \X (1..MaxDay)

\* the list of the periods with these dates, named by their position
PeriodList(dates) ==
    [i \in DOMAIN dates |-> PSURPeriod(i, "PSUR-001", dates[i][1], dates[i][2], "EU", None)]

InitContiguity ==
    /\ files = NoFiles
    /\ compiled = NoCompiled
    /\ schedule = None
    /\ \E n \in 0..MaxPeriods : \E dates \in [1..n -> Dates] :
          period_list = PeriodList(dates)
    /\ contiguity = NoContiguity
    /\ obligations = <<>>
    /\ rules = <<>>
    /\ template = <<>>
    /\ mapping = <<>>
    /\ obligation_lookup = build_obligation_lookup(<<>>)
    /\ evidence_atoms = EvidenceStore
    /\ hash_seed = 0
    /\ uuid_counter = 0
    /\ clock = 0
    /\ pc = "idle"
    /\ proposal = NoProposal
    /\ result = NoResult
    /\ previous = NoResult
    /\ report = NoReport
    /\ trace_slot_type = None
    /\ trace_nodes = NoTraces
    /\ trace_complete = NoValidation
    /\ db = EmptyStore

\* valid, issues = validate_period_contiguity(periods)
ValidateContiguity ==
    /\ pc = "idle"
    /\ contiguity' = validate_period_contiguity(period_list)
    /\ pc' = "validated"
    /\ UNCHANGED <<compile_vars, engine_vars, evidence_atoms, hash_seed, uuid_counter, clock,
                   proposal, result, previous, report, trace_vars, period_list, db>>

NextContiguity == ValidateContiguity

SpecContiguity == InitContiguity /\ [][NextContiguity]_vars

(***************************************************************************)
(* Period contiguity: properties                                           *)
(***************************************************************************)
\* the position of period i in start_date order (equal start dates keep
\* the order of the list)
StartRank(i) ==
    Cardinality({j \in DOMAIN period_list :
        \/ period_list[j].start_date < period_list[i].start_date
        \/ period_list[j].start_date = period_list[i].start_date /\ j < i})

Overlapping(a, b) ==
    a.start_date <= b.end_date /\ b.start_date <= a.end_date

SomeOverlap ==
    \E i, j \in DOMAIN period_list :
        i # j /\ Overlapping(period_list[i], period_list[j])

SomeGap ==
    \E i, j \in DOMAIN period_list :
        /\ StartRank(j) = StartRank(i) + 1
        /\ period_list[j].start_date # period_list[i].end_date + 1

\* C17: validate_period_contiguity returns valid = true if and only if no
\* two distinct periods overlap and no pair adjacent in start_date order has
\* a gap; valid is true exactly when the issues list is empty; the empty
\* list and every singleton pass.
C17_ContiguityLaw ==
    pc = "validated" =>
        /\ contiguity.valid <=> (~SomeOverlap /\ ~SomeGap)
        /\ contiguity.valid <=> (contiguity.issues = <<>>)
        /\ Len(period_list) <= 1 => contiguity.valid

\* three contiguous periods given out of order pass, and so a list the
\* sort changes is validated
C17_Witness ==
    /\ pc = "validated"
    /\ Len(period_list) = 3
    /\ contiguity.valid
    /\ period_list[1].start_date > period_list[2].start_date

(***************************************************************************)
(* storage/models.py, cli.py: the SQLite store and the commands that write *)
(* to it.  A table is a function from primary key to row; the data column  *)
(* holds the JSON dump of the entity.                                      *)
(***************************************************************************)
\* entity.model_dump_json()
model_dump_json(entity) == [json |-> entity]

\* Model.model_validate_json(row["data"])
model_validate_json(data) == data.json

\* Variant of insert_or_replace with a fault: a row whose key is taken is
\* left as it is (INSERT OR IGNORE).
insert_or_ignore(table, id, row) ==
    [k \in DOMAIN table \cup {id} |-> IF k \in DOMAIN table THEN table[k] ELSE row]

\* INSERT OR REPLACE INTO table ... : the row with this primary key is
\* replaced, or the row is added
insert_or_replace(table, id, row) ==
    [k \in DOMAIN table \cup {id} |-> IF k = id THEN row ELSE table[k]]

save_evidence_atom(store, atom) ==
    [store EXCEPT !.evidence_atoms =
        insert_or_replace(@, atom.atom_id,
            [id |-> atom.atom_id, evidence_type |-> atom.evidence_type,
             data |-> model_dump_json(atom)])]

\* {row["id"]: EvidenceAtom.model_validate_json(row["data"]) for row in rows}
load_all_evidence_atoms(store) ==
    [id \in DOMAIN store.evidence_atoms |->
        model_validate_json(store.evidence_atoms[id].data)]

save_proposal(store, p) ==
    [store EXCEPT !.proposals =
        insert_or_replace(@, p.proposal_id,
            [id |-> p.proposal_id, slot_id |-> p.slot_id,
             data |-> model_dump_json(p)])]

\* the proposal, or None when no row has the id
load_proposal(store, proposal_id) ==
    IF proposal_id \in DOMAIN store.proposals
    THEN model_validate_json(store.proposals[proposal_id].data)
    ELSE NoProposal

save_adjudication(store, adjudication) ==
    [store EXCEPT !.adjudications =
        insert_or_replace(@, adjudication.adjudication_id,
            [id |-> adjudication.adjudication_id,
             proposal_id |-> adjudication.proposal_id,
             status |-> adjudication.status,
             data |-> model_dump_json(adjudication)])]

save_trace_node(store, node) ==
    [store EXCEPT !.trace_nodes =
        insert_or_replace(@, node.trace_id,
            [id |-> node.trace_id, adjudication_id |-> node.adjudication_id,
             slot_id |-> node.slot_id, data |-> model_dump_json(node)])]

\* Variant of traces_of_command with a fault: the status of the result is
\* not looked at.
traces_of_command_any_status(slots, p, adjudication, now) ==
    LET slot == get_slot(slots, p.slot_id)
    IN  IF slot # NoSlot
        THEN generate_trace_unguarded(p, adjudication, slot.slot_type, now).value
        ELSE <<>>

\* adjudicate_command after save_adjudication: the traces it goes on to save
traces_of_command(slots, p, adjudication, now) ==
    LET slot == get_slot(slots, p.slot_id)
    IN  IF adjudication.status = "ACCEPTED" /\ slot # NoSlot
        THEN generate_trace(p, adjudication, slot.slot_type, now).value
        ELSE <<>>

(***************************************************************************)
(* The store: compiled data, a template and its mapping are registered;    *)
(* evidence-add, proposal-submit and adjudicate commands follow one        *)
(* another.  Each command is a process of its own, with its own hash seed. *)
(* adjudicate saves each trace node in a transaction of its own.           *)
(***************************************************************************)
MaxAdjudications == 2

StoreObligations ==
    <<Obligation("O1", TRUE, <<"sales_volume">>, <<"summarize">>, <<"invent">>,
                 None, <<"narrative">>, FALSE)>>

StoreRules ==
    <<Constraint("NO_INVENTION", "BLOCK", "on_proposal_submit", "no_invention", "reject")>>

\* the atoms of evidence-add: a1 may be added again with another type
StoreAtoms == {EvidenceAtom("a1", t) : t \in Range(EvidenceTypes)}

\* the proposals of proposal-submit: p1 may be submitted again with other
\* content
StoreProposals ==
    {SlotProposal("p1", "agent", slot_id, [text |-> <<"a", "\n", "\n", "a">>],
                  <<"a1">>, <<"O1">>, t) :
        slot_id \in {"s1", "s9"}, t \in {<<"summarize">>, <<"invent">>}}

InitStore ==
    /\ files = NoFiles
    /\ compiled = NoCompiled
    /\ schedule = None
    /\ obligations = StoreObligations
    /\ rules = StoreRules
    /\ template = AdjudicationTemplate
    /\ mapping = SingleMapping
    /\ obligation_lookup = build_obligation_lookup(StoreObligations)
    /\ db = EmptyStore
    /\ evidence_atoms = EmptyDict
    /\ hash_seed = 0
    /\ uuid_counter = 0
    /\ clock = 0
    /\ pc = "idle"
    /\ proposal = NoProposal
    /\ result = NoResult
    /\ previous = NoResult
    /\ report = NoReport
    /\ trace_slot_type = None
    /\ trace_nodes = NoTraces
    /\ trace_complete = NoValidation
    /\ period_list = <<>>
    /\ contiguity = NoContiguity

CommandDone == pc \in {"idle", "failed"}

\* psur evidence-add
evidence_add_command(atom) ==
    /\ CommandDone
    /\ db' = save_evidence_atom(db, atom)
    /\ pc' = "idle"
    /\ UNCHANGED <<compile_vars, engine_vars, evidence_atoms, hash_seed, uuid_counter, clock,
                   proposal, result, previous, report, trace_vars, period_vars>>

\* psur proposal-submit
proposal_submit_command(p) ==
    /\ CommandDone
    /\ db' = save_proposal(db, p)
    /\ pc' = "idle"
    /\ UNCHANGED <<compile_vars, engine_vars, evidence_atoms, hash_seed, uuid_counter, clock,
                   proposal, result, previous, report, trace_vars, period_vars>>

\* psur adjudicate, for a proposal or a template that is not stored: exit 1
adjudicate_command_exit(proposal_id, template_id) ==
    /\ CommandDone
    /\ proposal_id \notin DOMAIN db.proposals \/ template_id # "t1"
    /\ pc' = "failed"
    /\ UNCHANGED <<compile_vars, engine_vars, evidence_atoms, hash_seed, uuid_counter, clock,
                   proposal, result, previous, report, trace_vars, period_vars, db>>

\* psur adjudicate, up to the first save_trace_node
adjudicate_command(proposal_id, template_id, seed) ==
    /\ CommandDone
    /\ proposal_id \in DOMAIN db.proposals
    /\ template_id = "t1"
    /\ uuid_counter < MaxAdjudications
    /\ LET p      == load_proposal(db, proposal_id)
           atoms  == load_all_evidence_atoms(db)
           verdict_of == adjudicate(template, mapping, rules, obligation_lookup, p, atoms,
                                    seed, new_uuid(uuid_counter), clock)
           nodes  == traces_of_command(template, p, verdict_of, clock + 1)
       IN  /\ proposal' = p
           /\ evidence_atoms' = atoms
           /\ result' = verdict_of
           /\ previous' = result
           /\ db' = save_adjudication(db, verdict_of)
           /\ trace_nodes' = Return(nodes)
           /\ clock' = clock + 1 + Len(nodes)
           /\ pc' = IF nodes = <<>> THEN "idle" ELSE "saving"
    /\ hash_seed' = seed
    /\ uuid_counter' = new_uuid(uuid_counter)
    /\ UNCHANGED <<compile_vars, engine_vars, report, trace_slot_type, trace_complete, period_vars>>

\* the nodes of the running adjudicate command that are not saved yet
Unsaved == {k \in DOMAIN trace_nodes.value :
               trace_nodes.value[k].trace_id \notin DOMAIN db.trace_nodes}

\* storage.save_trace_nodes(traces): the next save_trace_node
save_trace_nodes_step ==
    /\ pc = "saving"
    /\ LET k == CHOOSE u \in Unsaved : \A v \in Unsaved : u <= v
       IN  /\ db' = save_trace_node(db, trace_nodes.value[k])
           /\ pc' = IF Unsaved = {k} THEN "idle" ELSE "saving"
    /\ UNCHANGED <<compile_vars, engine_vars, evidence_atoms, hash_seed, uuid_counter, clock,
                   proposal, result, previous, report, trace_vars, period_vars>>

NextStore ==
    \/ \E atom \in StoreAtoms : evidence_add_command(atom)
    \/ \E p \in StoreProposals : proposal_submit_command(p)
    \/ \E proposal_id \in {"p1", "p9"}, template_id \in {"t1", "t9"} :
          adjudicate_command_exit(proposal_id, template_id)
    \/ \E proposal_id \in {"p1", "p9"}, seed \in {0, 1} :
          adjudicate_command(proposal_id, "t1", seed)
    \/ save_trace_nodes_step

SpecStore == InitStore /\ [][NextStore]_vars

Tables == {"evidence_atoms", "proposals", "adjudications", "trace_nodes"}

\* C19: evidence atoms, proposals, adjudications and traces are append-only:
\* a record saved under some id stays stored with the content it was saved
\* with; no later save changes or removes it.
C19_AppendOnly ==
    [][\A table \in Tables : \A id \in DOMAIN db[table] :
          /\ id \in DOMAIN db'[table]
          /\ db'[table][id] = db[table][id]]_vars

(***************************************************************************)
(* Adjudication: the check registry                                        *)
(***************************************************************************)
\* the on_proposal_submit constraints bound to the built-in no_invention
\* check
NoInventionConstraints ==
    {i \in DOMAIN rules : /\ rules[i].trigger = "on_proposal_submit"
                          /\ rules[i].condition = "no_invention"}

\* C20: at adjudication time a constraint bound to the built-in
\* no_invention check yields a failed CheckResult, and the proposal is
\* REJECTED, whenever the proposal used invent (or infer, or extrapolate).
C20_NoInventionEnforced ==
    (Adjudicated /\ SlotInTemplate /\ "invent" \in Used) =>
        \A i \in NoInventionConstraints :
            /\ \E k \in DOMAIN result.check_results :
                  /\ result.check_results[k].check_type = "constraint"
                  /\ result.check_results[k].constraint_id = rules[i].id
                  /\ ~result.check_results[k].passed
            /\ result.status = "REJECTED"

(***************************************************************************)
(* Interleaving: one engine adjudicates two proposals, one after the other *)
(***************************************************************************)
\* proposals of two agents, with ids of their own
InterleavedProposals ==
    {SlotProposal("p1", "agent", "s1", "payload", <<"a1", "a2">>, <<"O1">>,
                  <<"summarize">>),
     SlotProposal("p1", "agent", "s2", "payload", <<>>, <<"O1">>,
                  <<"invent">>),
     SlotProposal("p2", "other", "s1", "payload", <<"a9", "a1">>, <<"O2">>,
                  <<"summarize", "invent">>),
     SlotProposal("p2", "other", "s9", "payload", <<>>, <<>>, <<>>)}

\* result = engine.adjudicate(proposal, evidence_atoms), on an engine that may
\* have adjudicated another proposal before
AdjudicateInterleaved(p) ==
    /\ pc \in {"idle", "first"}
    /\ proposal' = p
    /\ result' = adjudicate(template, mapping, rules, obligation_lookup, p,
                            evidence_atoms, hash_seed, new_uuid(uuid_counter), clock)
    /\ uuid_counter' = new_uuid(uuid_counter)
    /\ clock' = clock + 1
    /\ previous' = result
    /\ pc' = IF pc = "idle" THEN "first" ELSE "second"
    /\ UNCHANGED <<compile_vars, engine_vars, evidence_atoms, hash_seed, report,
                   trace_vars, period_vars, db>>

NextInterleaving == \E p \in InterleavedProposals : AdjudicateInterleaved(p)

SpecInterleaving == InitAdjudication /\ [][NextInterleaving]_vars

\* the result of adjudicating p alone: on an engine constructed from the same
\* obligations, rules, template and mapping, with the same evidence store
adjudicate_alone(p, adjudication_id, now) ==
    adjudicate(AdjudicationTemplate, mapping, rules,
               build_obligation_lookup(obligations), p, EvidenceStore,
               hash_seed, adjudication_id, now)

SourceNode(id, jurisdiction, instrument) ==
    [kind |-> "SourceNode", id |-> id, jurisdiction |-> jurisdiction,
     instrument |-> instrument, effective_date |-> None, title |-> None]

ObligationNode(id, title, jurisdiction, mandatory, required_evidence_types, allowed_transformations, forbidden_transformations, required_time_scope, allowed_output_types, sources, allow_absence_statement) ==
    [kind |-> "ObligationNode", id |-> id, title |-> title,
     jurisdiction |-> jurisdiction, mandatory |-> mandatory,
     required_evidence_types |-> required_evidence_types,
     allowed_transformations |-> allowed_transformations,
     forbidden_transformations |-> forbidden_transformations,
     required_time_scope |-> required_time_scope,
     allowed_output_types |-> allowed_output_types,
     sources |-> sources,
     allow_absence_statement |-> allow_absence_statement]

ConstraintNode(id, severity, trigger, condition, action, sources, jurisdiction) ==
    [kind |-> "ConstraintNode", id |-> id, severity |-> severity,
     trigger |-> trigger, condition |-> condition, action |-> action,
     sources |-> sources, jurisdiction |-> jurisdiction]

ImportNode(path) == [kind |-> "ImportNode", path |-> path]

DSLProgram(sources, obligation_nodes, constraints, imports) ==
    [sources |-> sources, obligations |-> obligation_nodes,
     constraints |-> constraints, imports |-> imports]

\* DSLTransformer.start: the declarations, by kind, in declaration order
start(declarations) ==
    LET isinstance(kind) ==
            LET is_kind(decl) == decl.kind = kind
            IN  SelectSeq(declarations, is_kind)
    IN  DSLProgram(isinstance("SourceNode"), isinstance("ObligationNode"),
                   isinstance("ConstraintNode"), isinstance("ImportNode"))

\* import_path.exists()
exists(disk, path) == path \in DOMAIN disk

\* DSLParser.parse_file
parse_file(disk, path) == start(disk[path])

\* str.lower() on the enumeration names the model draws from
lower(value) ==
    CASE value = "SUMMARIZE" -> "summarize"
      [] value = "INVENT" -> "invent"
      [] value = "Invent" -> "invent"
      [] value = "SALES_VOLUME" -> "sales_volume"
      [] value = "NARRATIVE" -> "narrative"
      [] OTHER -> value

_map_jurisdiction(value) == IF value = None THEN "EU" ELSE value

_map_severity(value) == value

_map_evidence_type(value) == lower(value)

_map_transformation(value) == lower(value)

_map_output_type(value) == lower(value)

\* [x for x in values if x]
non_empty(values) ==
    LET truthy(x) == x # ""
    IN  SelectSeq(values, truthy)

\* x or default
or_default(x, default) == IF x = None \/ x = "" THEN default ELSE x

_compile_source(node) ==
    [id |-> node.id,
     jurisdiction |-> _map_jurisdiction(node.jurisdiction),
     instrument |-> or_default(node.instrument, "Unknown"),
     effective_date |-> node.effective_date,
     title |-> node.title]

_compile_obligation(node) ==
    [id |-> node.id,
     title |-> or_default(node.title, node.id),
     jurisdiction |-> _map_jurisdiction(node.jurisdiction),
     mandatory |-> node.mandatory,
     required_evidence_types |->
        MapSeq(non_empty(node.required_evidence_types), _map_evidence_type),
     allowed_transformations |->
        MapSeq(non_empty(node.allowed_transformations), _map_transformation),
     forbidden_transformations |->
        MapSeq(non_empty(node.forbidden_transformations), _map_transformation),
     required_time_scope |-> node.required_time_scope,
     allowed_output_types |->
        MapSeq(non_empty(node.allowed_output_types), _map_output_type),
     sources |-> non_empty(node.sources),
     allow_absence_statement |-> node.allow_absence_statement]

_compile_constraint(node) ==
    [id |-> node.id,
     severity |-> _map_severity(node.severity),
     trigger |-> or_default(node.trigger, ""),
     condition |-> or_default(node.condition, ""),
     action |-> or_default(node.action, ""),
     sources |-> node.sources,
     jurisdiction |-> IF node.jurisdiction # None
                      THEN _map_jurisdiction(node.jurisdiction) ELSE None]

CompiledObligations(compiled_at, sources, compiled_obligations) ==
    [version |-> "1.0", compiled_at |-> compiled_at, sources |-> sources,
     obligations |-> compiled_obligations]

CompiledRules(compiled_at, constraints) ==
    [version |-> "1.0", compiled_at |-> compiled_at, constraints |-> constraints]

\* DSLCompiler.compile: the pair (CompiledObligations, CompiledRules)
compile(program, now) ==
    <<CompiledObligations(now, MapSeq(program.sources, _compile_source),
                          MapSeq(program.obligations, _compile_obligation)),
      CompiledRules(now, MapSeq(program.constraints, _compile_constraint))>>

\* program.X.extend(imported_program.X) for the three kinds of declaration
extend(program, imported_program) ==
    DSLProgram(program.sources \o imported_program.sources,
               program.obligations \o imported_program.obligations,
               program.constraints \o imported_program.constraints,
               program.imports)

\* Variant of import_loop with a fault: the declarations of an imported file
\* are put before the ones the program already has.
RECURSIVE import_loop_prepend(_, _, _)
import_loop_prepend(disk, imports, program) ==
    IF imports = <<>> THEN program
    ELSE
    LET import_path == Head(imports).path
    IN  IF exists(disk, import_path)
        THEN import_loop_prepend(disk, Tail(imports),
                         extend(parse_file(disk, import_path), program))
        ELSE import_loop_prepend(disk, Tail(imports), program)

\* for imp in program.imports: ...  (the paths are names in the directory of
\* the importer)
RECURSIVE import_loop(_, _, _)
import_loop(disk, imports, program) ==
    IF imports = <<>> THEN program
    ELSE
    LET import_path == Head(imports).path
    IN  IF exists(disk, import_path)
        THEN import_loop(disk, Tail(imports),
                         extend(program, parse_file(disk, import_path)))
        ELSE import_loop(disk, Tail(imports), program)

\* DSLCompiler.compile_file
compile_file(disk, path, now) ==
    IF ~exists(disk, path) THEN Raise("FileNotFoundError")
    ELSE LET program == parse_file(disk, path)
         IN  Return(compile(import_loop(disk, program.imports, program), now))

(***************************************************************************)
(* Compilation: the files on disk and the call                             *)
(***************************************************************************)
MaxDecls == 3

\* the two OBLIGATION "O1" name the same id; S9 is the id of no SOURCE; c.dsl
\* is the name of no file
MainDeclarations ==
    {SourceNode("S1", None, None),
     SourceNode("S2", "UK", "MDR"),
     ObligationNode("O1", None, None, TRUE, <<"sales_volume">>, <<"summarize">>,
                    <<"invent">>, None, <<"narrative">>, <<"S1">>, FALSE),
     ObligationNode("O1", "title", "UK", FALSE, <<>>, <<"INVENT", "">>,
                    <<"invent">>, "period", <<>>, <<"S9">>, TRUE),
     ConstraintNode("C1", "BLOCK", "on_proposal_submit", "no_invention",
                    None, <<>>, None),
     ImportNode("a.dsl"),
     ImportNode("b.dsl"),
     ImportNode("c.dsl")}

\* what a.dsl holds when it is there
ImportedA ==
    {<<ImportNode("b.dsl"),
       SourceNode("S1", "EU", "MDR"),
       ObligationNode("O2", None, None, TRUE, <<>>, <<>>, <<>>, None, <<>>,
                      <<"S2", "">>, FALSE)>>,
     <<ConstraintNode("C2", "WARN", None, None, "warn", <<"S1">>, "UK"),
       SourceNode("S3", None, None)>>}

\* what b.dsl holds when it is there
ImportedB ==
    {<<SourceNode("S2", "UK", "MDR"),
       ConstraintNode("C1", "BLOCK", "on_proposal_submit", "no_invention",
                      None, <<>>, None),
       ObligationNode("O3", None, None, TRUE, <<>>, <<"summarize">>, <<>>,
                      None, <<>>, <<>>, FALSE)>>}

FileNames == {"main.dsl", "a.dsl", "b.dsl"}

\* the directory: the files that are there, with what they hold
Disk(main, a, b, present) ==
    [path \in present |->
        CASE path = "main.dsl" -> main
          [] path = "a.dsl" -> a
          [] path = "b.dsl" -> b]

InitCompile ==
    /\ \E main \in SeqsUpTo(MainDeclarations, MaxDecls) :
       \E a \in ImportedA :
       \E b \in ImportedB :
       \E present \in SUBSET FileNames :
          files = Disk(main, a, b, present)
    /\ compiled = NoCompiled
    /\ schedule = None
    /\ period_list = <<>>
    /\ contiguity = NoContiguity
    /\ obligations = <<>>
    /\ rules = <<>>
    /\ template = <<>>
    /\ mapping = <<>>
    /\ obligation_lookup = build_obligation_lookup(<<>>)
    /\ evidence_atoms = EvidenceStore
    /\ hash_seed = 0
    /\ uuid_counter = 0
    /\ clock = 0
    /\ pc = "idle"
    /\ proposal = NoProposal
    /\ result = NoResult
    /\ previous = NoResult
    /\ report = NoReport
    /\ trace_slot_type = None
    /\ trace_nodes = NoTraces
    /\ trace_complete = NoValidation
    /\ db = EmptyStore

\* obligations, rules = compiler.compile_file(dsl_file)
CompileFile ==
    /\ pc = "idle"
    /\ compiled' = compile_file(files, "main.dsl", clock)
    /\ clock' = clock + 1
    /\ pc' = IF compiled'.raised THEN "raised" ELSE "compiled"
    /\ UNCHANGED <<files, schedule, engine_vars, evidence_atoms, hash_seed,
                   uuid_counter, proposal, result, previous, report, trace_vars,
                   period_vars, db>>

NextCompile == CompileFile

SpecCompile == InitCompile /\ [][NextCompile]_vars

(***************************************************************************)
(* Compilation: properties                                                 *)
(***************************************************************************)
Compiled == pc = "compiled"

EmittedObligations == Range(compiled.value[1].obligations)

EmittedSourceIds == {s.id : s \in Range(compiled.value[1].sources)}

\* C22: every Obligation of an emitted CompiledObligations has no
\* transformation both allowed and forbidden, and every id in its sources
\* list is the id of a RegulatorySource of the same CompiledObligations.
C22_ObligationInvariants ==
    Compiled =>
        \A o \in EmittedObligations :
            /\ Range(o.allowed_transformations)
                  \cap Range(o.forbidden_transformations) = {}
            /\ Range(o.sources) \subseteq EmittedSourceIds

\* the declarations of one kind a file holds itself, in declaration order
OwnDeclarations(path, kind) ==
    LET is_kind(decl) == decl.kind = kind
    IN  SelectSeq(files[path], is_kind)

RECURSIVE Flatten(_)
Flatten(seqs) == IF seqs = <<>> THEN <<>> ELSE Head(seqs) \o Flatten(Tail(seqs))

ImportsOfMain == OwnDeclarations("main.dsl", "ImportNode")

\* what one IMPORT of the compiled file contributes: the imported file's own
\* declarations, nothing when there is no such file
Contribution(imp, kind) ==
    IF imp.path \in DOMAIN files THEN OwnDeclarations(imp.path, kind) ELSE <<>>

ExpectedDeclarations(kind) ==
    OwnDeclarations("main.dsl", kind)
        \o Flatten([i \in DOMAIN ImportsOfMain |->
                        Contribution(ImportsOfMain[i], kind)])

\* C23: compile_file of a file that exists raises nothing and emits, for
\* sources, obligations and constraints alike, the file's own declarations in
\* declaration order followed by the own declarations of each file it
\* imports, in IMPORT order: an IMPORT inside an imported file is not
\* followed, an IMPORT of a file that is not there adds nothing, and
\* declarations that repeat an id are all kept.
C23_ImportOrder ==
    (pc # "idle" /\ "main.dsl" \in DOMAIN files) =>
        /\ Compiled
        /\ compiled.value[1].sources =
              MapSeq(ExpectedDeclarations("SourceNode"), _compile_source)
        /\ compiled.value[1].obligations =
              MapSeq(ExpectedDeclarations("ObligationNode"), _compile_obligation)
        /\ compiled.value[2].constraints =
              MapSeq(ExpectedDeclarations("ConstraintNode"), _compile_constraint)

\* the file declares a source, imports a file that is not there and then
\* a.dsl, which declares the same source id again and imports b.dsl; b.dsl is
\* there
C23_Witness ==
    /\ Compiled
    /\ {"a.dsl", "b.dsl"} \subseteq DOMAIN files
    /\ Len(files["main.dsl"]) = 3
    /\ files["main.dsl"][1].kind = "SourceNode"
    /\ files["main.dsl"][1].id = "S1"
    /\ files["main.dsl"][2] = ImportNode("c.dsl")
    /\ files["main.dsl"][3] = ImportNode("a.dsl")
    /\ \E d \in Range(files["a.dsl"]) : d = ImportNode("b.dsl")
    /\ Len(compiled.value[1].sources) = 2
    /\ compiled.value[1].sources[1].id = compiled.value[1].sources[2].id
    /\ Len(compiled.value[1].obligations) = 1

(***************************************************************************)
(* rules/engine.py: get_schedule_constraint.  A timedelta is its number of *)
(* days.                                                                   *)
(***************************************************************************)
\* Variant of get_schedule_constraint with a fault: the UK branch is missing.
get_schedule_constraint_eu_only(jurisdiction, device_class) ==
    IF jurisdiction = "EU"
    THEN IF device_class \in {"III", "IIb"} THEN 365
         ELSE IF device_class = "IIa" THEN 730
         ELSE 365 * 5
    ELSE 365

get_schedule_constraint(jurisdiction, device_class) ==
    IF jurisdiction = "EU"
    THEN IF device_class \in {"III", "IIb"} THEN 365
         ELSE IF device_class = "IIa" THEN 730
         ELSE 365 * 5
    ELSE IF jurisdiction = "UK"
    THEN IF device_class \in {"III", "IIb"} THEN 365
         ELSE IF device_class = "IIa" THEN 730
         ELSE 365 * 5
    ELSE 365

Jurisdictions == {"EU", "UK", "FDA", "HEALTH_CANADA", "TGA"}

\* device classes as callers may write them; None: the period has none
DeviceClasses ==
    {"III", "IIb", "IIa", "I", "Is", "Im", "Ir", "iii", "IIB", "iia", "", None}

InitSchedule ==
    /\ \E j \in Jurisdictions : \E device_class \in DeviceClasses :
          period_list = <<PSURPeriod(1, "PSUR-001", 1, 1, j, device_class)>>
    /\ files = NoFiles
    /\ compiled = NoCompiled
    /\ schedule = None
    /\ contiguity = NoContiguity
    /\ obligations = <<>>
    /\ rules = <<>>
    /\ template = <<>>
    /\ mapping = <<>>
    /\ obligation_lookup = build_obligation_lookup(<<>>)
    /\ evidence_atoms = EvidenceStore
    /\ hash_seed = 0
    /\ uuid_counter = 0
    /\ clock = 0
    /\ pc = "idle"
    /\ proposal = NoProposal
    /\ result = NoResult
    /\ previous = NoResult
    /\ report = NoReport
    /\ trace_slot_type = None
    /\ trace_nodes = NoTraces
    /\ trace_complete = NoValidation
    /\ db = EmptyStore

\* interval = get_schedule_constraint(period.jurisdiction, period.device_class)
ScheduleConstraint ==
    /\ pc = "idle"
    /\ schedule' = get_schedule_constraint(period_list[1].jurisdiction,
                                           period_list[1].device_class)
    /\ pc' = "scheduled"
    /\ UNCHANGED <<files, compiled, engine_vars, evidence_atoms, hash_seed,
                   uuid_counter, clock, proposal, result, previous, report,
                   trace_vars, period_vars, db>>

NextSchedule == ScheduleConstraint

SpecSchedule == InitSchedule /\ [][NextSchedule]_vars

\* the EU/UK table: device class -> days; every other class has the last row
ScheduleTable == {<<"III", 365>>, <<"IIb", 365>>, <<"IIa", 730>>}

TableDays(device_class) ==
    IF \E row \in ScheduleTable : row[1] = device_class
    THEN (CHOOSE row \in ScheduleTable : row[1] = device_class)[2]
    ELSE 1825

\* C24: for EU and for UK, get_schedule_constraint returns 365 days for class
\* III or IIb, 730 days for IIa and 5 x 365 days for every other class, so EU
\* and UK agree on every class; for every other jurisdiction it returns 365
\* days whatever the class.
C24_ScheduleTable ==
    pc = "scheduled" =>
        LET period == period_list[1]
        IN  /\ period.jurisdiction \in {"EU", "UK"} =>
                  schedule = TableDays(period.device_class)
            /\ period.jurisdiction \notin {"EU", "UK"} => schedule = 365
            /\ get_schedule_constraint("EU", period.device_class)
                  = get_schedule_constraint("UK", period.device_class)

\* a UK period of a class outside the table
C24_Witness ==
    /\ pc = "scheduled"
    /\ period_list[1].jurisdiction = "UK"
    /\ period_list[1].device_class = "iii"
    /\ schedule = 1825

(***************************************************************************)
(* Adjudication: the order of the checks, and the constraints              *)
(***************************************************************************)
\* the mapping entries that list the proposal's slot and name an obligation of
\* the engine, in declaration order
ResolvedEntries ==
    LET resolved(m) == /\ proposal.slot_id \in Range(m.slot_ids)
                       /\ Declared(m.obligation_id)
    IN  SelectSeq(mapping, resolved)

\* the mapping entries that list the proposal's slot and name no obligation
UnresolvedEntries ==
    {m \in Range(mapping) : /\ proposal.slot_id \in Range(m.slot_ids)
                            /\ ~Declared(m.obligation_id)}

SubmitConstraints ==
    LET on_submit(c) == c.trigger = "on_proposal_submit"
    IN  SelectSeq(rules, on_submit)

ObligationCheckIds == <<"evidence_types", "time_scope", "transformations">>

\* C25: for a proposal whose slot exists, check_results holds, for each
\* mapping entry that lists the slot and whose obligation id resolves, in
\* mapping order, the three results evidence_types, time_scope and
\* transformations of that obligation; then one result per on_proposal_submit
\* constraint in declaration order; nothing else. An entry whose obligation
\* id does not resolve adds no check and no rejection, and an obligation that
\* violates the evidence rule and the transformation rule gets both
\* rejection reasons.
C25_CheckOrder ==
    (Adjudicated /\ SlotInTemplate) =>
        LET checks == result.check_results
            n == Len(ResolvedEntries)
        IN  /\ Len(checks) = 3 * n + Len(SubmitConstraints)
            /\ \A k \in 1..n : \A c \in 1..3 :
                  LET check == checks[3 * (k - 1) + c]
                  IN  /\ check.check_type = "obligation"
                      /\ check.check_id = ObligationCheckIds[c]
                      /\ check.obligation_id = ResolvedEntries[k].obligation_id
            /\ \A k \in 1..Len(SubmitConstraints) :
                  LET check == checks[3 * n + k]
                  IN  /\ check.check_type = "constraint"
                      /\ check.check_id = SubmitConstraints[k].id
                      /\ check.constraint_id = SubmitConstraints[k].id
            /\ \A m \in UnresolvedEntries :
                  \A r \in Range(result.rejection_reasons) :
                      r.obligation_id # m.obligation_id
            /\ \A o \in MappedObligations :
                  (/\ MissingTypes(o) # {}
                   /\ ~o.allow_absence_statement
                   /\ ViolatesTransformations(o)) =>
                      /\ ReasonsOf(o, "EVIDENCE_TYPES") # {}
                      /\ ReasonsOf(o, "TRANSFORMATIONS") # {}

\* two entries list the slot, the first names no obligation; the obligation
\* of the second violates both rules; one of three constraints is not for
\* on_proposal_submit
C25_Witness ==
    /\ Adjudicated /\ SlotInTemplate
    /\ Len(ResolvedEntries) = 1
    /\ UnresolvedEntries # {}
    /\ Len(rules) = 3
    /\ Len(SubmitConstraints) = 2
    /\ Len(result.check_results) = 5
    /\ \E o \in MappedObligations :
          /\ ReasonsOf(o, "EVIDENCE_TYPES") # {}
          /\ ReasonsOf(o, "TRANSFORMATIONS") # {}

\* rules/registry.py: the conditions a registered check recognizes
RegisteredChecks ==
    {"no_invention", "evidence_within_period", "leading_device_unchanged",
     "notified_body_consistent", "mhra_availability_process"}

ConstraintChecksOf(c) ==
    {k \in DOMAIN result.check_results :
        /\ result.check_results[k].check_type = "constraint"
        /\ result.check_results[k].constraint_id = c.id}

ConstraintReasonsOf(c) ==
    {r \in Range(result.rejection_reasons) :
        r.rule_type \in {"constraint", "warning"} /\ r.rule_id = c.id}

\* C26: for a proposal whose slot exists, every on_proposal_submit constraint
\* whose condition no registered check recognizes yields exactly one
\* CheckResult, which passed, and no rejection reason; a constraint with
\* another trigger yields no CheckResult; and the time-scope check of every
\* mapped obligation passes, whether required_time_scope is set or not.
C26_UnrecognizedPasses ==
    (Adjudicated /\ SlotInTemplate) =>
        /\ \A c \in Range(rules) :
              /\ (c.trigger = "on_proposal_submit"
                  /\ c.condition \notin RegisteredChecks) =>
                    /\ Cardinality(ConstraintChecksOf(c)) = 1
                    /\ \A k \in ConstraintChecksOf(c) :
                          result.check_results[k].passed
                    /\ ConstraintReasonsOf(c) = {}
              /\ c.trigger # "on_proposal_submit" => ConstraintChecksOf(c) = {}
        /\ \A o \in MappedObligations :
              /\ ChecksOf(o, "time_scope") # {}
              /\ \A c \in ChecksOf(o, "time_scope") : c.passed
              /\ ReasonsOf(o, "TIME_SCOPE") = {}

\* a constraint with an unrecognized condition and one with another trigger,
\* and a mapped obligation whose required_time_scope is set
C26_Witness ==
    /\ Adjudicated /\ SlotInTemplate
    /\ \E c \in Range(rules) :
          /\ c.trigger = "on_proposal_submit"
          /\ c.condition \notin RegisteredChecks
          /\ ConstraintChecksOf(c) # {}
    /\ \E c \in Range(rules) : c.trigger # "on_proposal_submit"
    /\ \E o \in MappedObligations : o.required_time_scope # None
    /\ \E o \in MappedObligations : o.required_time_scope = None

(***************************************************************************)
(* Period contiguity: the issues reported                                  *)
(***************************************************************************)
OverlapIssues ==
    LET is_overlap(issue) == issue.text = "Period overlaps with"
    IN  SelectSeq(contiguity.issues, is_overlap)

GapIssues ==
    LET is_gap(issue) == issue.text = "Gap between"
    IN  SelectSeq(contiguity.issues, is_gap)

\* the unordered pairs of periods that overlap; a period is named by its
\* position in the list, which is its period_id
OverlappingPairs ==
    {pair \in SUBSET DOMAIN period_list :
        /\ Cardinality(pair) = 2
        /\ \A i, j \in pair :
              i # j => Overlapping(period_list[i], period_list[j])}

\* the pairs <<i, j>> with j right after i in start_date order
AdjacentPairs ==
    {pair \in (DOMAIN period_list) \X (DOMAIN period_list) :
        StartRank(pair[2]) = StartRank(pair[1]) + 1}

GapPairs ==
    {pair \in AdjacentPairs :
        period_list[pair[2]].start_date # period_list[pair[1]].end_date + 1}

OverlapIssuesOf(pair) ==
    {k \in DOMAIN OverlapIssues : Range(OverlapIssues[k].items) = pair}

GapIssuesOf(pair) ==
    {k \in DOMAIN GapIssues :
        /\ GapIssues[k].items[1] = pair[1]
        /\ GapIssues[k].items[3] = pair[2]}

\* C27: validate_period_contiguity reports exactly one overlap issue for
\* every unordered pair of periods that overlap, so as many overlap issues as
\* there are such pairs, and exactly one gap issue for every pair adjacent in
\* start_date order that has a gap.
C27_OneIssuePerPair ==
    pc = "validated" =>
        /\ \A pair \in OverlappingPairs : Cardinality(OverlapIssuesOf(pair)) = 1
        /\ Len(OverlapIssues) = Cardinality(OverlappingPairs)
        /\ \A pair \in AdjacentPairs :
              Cardinality(GapIssuesOf(pair)) = IF pair \in GapPairs THEN 1 ELSE 0
        /\ Len(GapIssues) = Cardinality(GapPairs)

\* C30: whenever two periods adjacent in start_date order overlap, a gap
\* issue is reported for the pair as well as an overlap issue; hence, for
\* periods that all have start_date <= end_date, the result is valid if and
\* only if every adjacent pair has current.start_date = previous.end_date + 1.
C30_AdjacentOverlapIsGap ==
    pc = "validated" =>
        /\ \A pair \in AdjacentPairs :
              Overlapping(period_list[pair[1]], period_list[pair[2]]) =>
                  /\ GapIssuesOf(pair) # {}
                  /\ OverlapIssuesOf({pair[1], pair[2]}) # {}
        /\ (\A i \in DOMAIN period_list :
                period_list[i].start_date <= period_list[i].end_date) =>
              (contiguity.valid <=>
                  \A pair \in AdjacentPairs :
                      period_list[pair[2]].start_date
                          = period_list[pair[1]].end_date + 1)

\* periods that all start before they end, given out of order; the two that
\* are adjacent in start_date order overlap and are reported with a gap
C30_Witness ==
    /\ pc = "validated"
    /\ Len(period_list) = 3
    /\ \A i \in DOMAIN period_list :
          period_list[i].start_date <= period_list[i].end_date
    /\ period_list[1].start_date > period_list[2].start_date
    /\ \E pair \in AdjacentPairs :
          /\ Overlapping(period_list[pair[1]], period_list[pair[2]])
          /\ GapIssuesOf(pair) # {}
    /\ \E pair \in AdjacentPairs : pair \notin GapPairs
    /\ ~contiguity.valid

(***************************************************************************)
(* cli.py, storage/models.py: the commands from an empty store on.  A load *)
(* returns Stored(entity), or NotStored for Python's None.                 *)
(***************************************************************************)
NotStored == [found |-> FALSE]

Stored(entity) == [found |-> TRUE, value |-> entity]

TemplateSchema(template_id, slots) == [template_id |-> template_id, slots |-> slots]

ObligationMapping(mapping_id, template_id, mappings) ==
    [mapping_id |-> mapping_id, template_id |-> template_id, mappings |-> mappings]

\* f"{template_id}_mapping"
mapping_id_of(template_id) == <<template_id, "_mapping">>

save_compiled_obligations(store, compiled_obligations) ==
    [store EXCEPT !.compiled_obligations =
        insert_or_replace(@, "current",
            [id |-> "current", data |-> model_dump_json(compiled_obligations),
             compiled_at |-> compiled_obligations.compiled_at])]

load_compiled_obligations(store) ==
    IF "current" \in DOMAIN store.compiled_obligations
    THEN Stored(model_validate_json(store.compiled_obligations["current"].data))
    ELSE NotStored

save_compiled_rules(store, compiled_rules) ==
    [store EXCEPT !.compiled_rules =
        insert_or_replace(@, "current",
            [id |-> "current", data |-> model_dump_json(compiled_rules),
             compiled_at |-> compiled_rules.compiled_at])]

load_compiled_rules(store) ==
    IF "current" \in DOMAIN store.compiled_rules
    THEN Stored(model_validate_json(store.compiled_rules["current"].data))
    ELSE NotStored

save_template(store, schema) ==
    [store EXCEPT !.templates =
        insert_or_replace(@, schema.template_id,
            [id |-> schema.template_id, data |-> model_dump_json(schema)])]

\* Variant of load_template with a fault: a template that is not stored is
\* loaded as a template with no slots.
load_template_or_empty(store, template_id) ==
    IF template_id \in DOMAIN store.templates
    THEN Stored(model_validate_json(store.templates[template_id].data))
    ELSE Stored(TemplateSchema(template_id, <<>>))

load_template(store, template_id) ==
    IF template_id \in DOMAIN store.templates
    THEN Stored(model_validate_json(store.templates[template_id].data))
    ELSE NotStored

save_mapping(store, obligation_mapping) ==
    [store EXCEPT !.mappings =
        insert_or_replace(@, obligation_mapping.mapping_id,
            [id |-> obligation_mapping.mapping_id,
             template_id |-> obligation_mapping.template_id,
             data |-> model_dump_json(obligation_mapping)])]

load_mapping(store, mapping_id) ==
    IF mapping_id \in DOMAIN store.mappings
    THEN Stored(model_validate_json(store.mappings[mapping_id].data))
    ELSE NotStored

\* all([...]) of loaded values: none of them is None
all_loaded(loaded) == \A i \in DOMAIN loaded : loaded[i].found

\* the tables after init_db, the ones of the compiled data, the templates
\* and the mappings included
CommandStore ==
    [evidence_atoms |-> EmptyDict, proposals |-> EmptyDict,
     adjudications |-> EmptyDict, trace_nodes |-> EmptyDict,
     compiled_obligations |-> EmptyDict, compiled_rules |-> EmptyDict,
     templates |-> EmptyDict, mappings |-> EmptyDict]

\* the DSL file of psur compile; c.dsl is the name of no file
CommandDisk ==
    [path \in {"main.dsl"} |->
        <<ObligationNode("O1", None, None, TRUE, <<"sales_volume">>,
                         <<"summarize">>, <<"invent">>, None, <<"narrative">>,
                         <<>>, FALSE),
          ConstraintNode("NO_INVENTION", "BLOCK", "on_proposal_submit",
                         "no_invention", "reject", <<>>, None)>>]

InitCommand ==
    /\ files = CommandDisk
    /\ compiled = NoCompiled
    /\ schedule = None
    /\ obligations = <<>>
    /\ rules = <<>>
    /\ template = <<>>
    /\ mapping = <<>>
    /\ obligation_lookup = build_obligation_lookup(<<>>)
    /\ db = CommandStore
    /\ evidence_atoms = EmptyDict
    /\ hash_seed = 0
    /\ uuid_counter = 0
    /\ clock = 0
    /\ pc = "idle"
    /\ proposal = NoProposal
    /\ result = NoResult
    /\ previous = NoResult
    /\ report = NoReport
    /\ trace_slot_type = None
    /\ trace_nodes = NoTraces
    /\ trace_complete = NoValidation
    /\ period_list = <<>>
    /\ contiguity = NoContiguity

\* psur compile, while nothing is compiled yet: exit 1 for a file that is not
\* there, else the compiled obligations and rules are saved
compile_command(dsl_file) ==
    /\ CommandDone
    /\ db.compiled_obligations = EmptyDict
    /\ IF ~exists(files, dsl_file)
       THEN /\ pc' = "failed"
            /\ UNCHANGED <<compiled, db, clock>>
       ELSE /\ compiled' = compile_file(files, dsl_file, clock)
            /\ db' = save_compiled_rules(
                        save_compiled_obligations(db, compiled'.value[1]),
                        compiled'.value[2])
            /\ clock' = clock + 1
            /\ pc' = "idle"
    /\ UNCHANGED <<files, schedule, engine_vars, evidence_atoms, hash_seed,
                   uuid_counter, proposal, result, previous, report, trace_vars,
                   period_vars>>

\* psur template-register
template_register_command(schema) ==
    /\ CommandDone
    /\ db' = save_template(db, schema)
    /\ pc' = "idle"
    /\ UNCHANGED <<compile_vars, engine_vars, evidence_atoms, hash_seed,
                   uuid_counter, clock, proposal, result, previous, report,
                   trace_vars, period_vars>>

\* psur mapping-register
mapping_register_command(obligation_mapping) ==
    /\ CommandDone
    /\ db' = save_mapping(db, obligation_mapping)
    /\ pc' = "idle"
    /\ UNCHANGED <<compile_vars, engine_vars, evidence_atoms, hash_seed,
                   uuid_counter, clock, proposal, result, previous, report,
                   trace_vars, period_vars>>

\* psur adjudicate, up to the first save_trace_node: everything is loaded from
\* the store; exit 1 when the proposal, the compiled obligations, the compiled
\* rules or the template is not stored
adjudicate_command_loaded(proposal_id, template_id, seed) ==
    /\ CommandDone
    /\ uuid_counter < MaxAdjudications
    /\ hash_seed' = seed
    /\ LET p == load_proposal(db, proposal_id)
           loaded_obligations == load_compiled_obligations(db)
           loaded_rules == load_compiled_rules(db)
           loaded_template == load_template(db, template_id)
           loaded_mapping == load_mapping(db, mapping_id_of(template_id))
       IN  IF p = NoProposal
           THEN /\ pc' = "failed"
                /\ proposal' = NoProposal
                /\ UNCHANGED <<engine_vars, evidence_atoms, uuid_counter, clock,
                               result, previous, trace_nodes, db>>
           ELSE IF ~all_loaded(<<loaded_obligations, loaded_rules, loaded_template>>)
           THEN /\ pc' = "failed"
                /\ proposal' = p
                /\ UNCHANGED <<engine_vars, evidence_atoms, uuid_counter, clock,
                               result, previous, trace_nodes, db>>
           ELSE
           LET engine_mapping ==
                   IF loaded_mapping.found THEN loaded_mapping.value
                   ELSE ObligationMapping(mapping_id_of(template_id), template_id, <<>>)
               atoms == load_all_evidence_atoms(db)
               lookup == build_obligation_lookup(loaded_obligations.value.obligations)
               verdict_of == adjudicate(loaded_template.value.slots,
                                 engine_mapping.mappings,
                                 loaded_rules.value.constraints, lookup, p, atoms,
                                 seed, new_uuid(uuid_counter), clock)
               nodes == traces_of_command(loaded_template.value.slots, p,
                                          verdict_of, clock + 1)
           IN  /\ obligations' = loaded_obligations.value.obligations
               /\ rules' = loaded_rules.value.constraints
               /\ template' = loaded_template.value.slots
               /\ mapping' = engine_mapping.mappings
               /\ obligation_lookup' = lookup
               /\ proposal' = p
               /\ evidence_atoms' = atoms
               /\ result' = verdict_of
               /\ previous' = result
               /\ db' = save_adjudication(db, verdict_of)
               /\ trace_nodes' = Return(nodes)
               /\ clock' = clock + 1 + Len(nodes)
               /\ uuid_counter' = new_uuid(uuid_counter)
               /\ pc' = IF nodes = <<>> THEN "idle" ELSE "saving"
    /\ UNCHANGED <<compile_vars, report, trace_slot_type, trace_complete,
                   period_vars>>

NextCommand ==
    \/ \E dsl_file \in {"main.dsl", "c.dsl"} : compile_command(dsl_file)
    \/ template_register_command(TemplateSchema("t1", AdjudicationTemplate))
    \/ mapping_register_command(
          ObligationMapping(mapping_id_of("t1"), "t1", SingleMapping))
    \/ evidence_add_command(EvidenceAtom("a1", "sales_volume"))
    \/ \E p \in StoreProposals : proposal_submit_command(p)
    \/ \E proposal_id \in {"p1", "p9"}, template_id \in {"t1", "t9"}, seed \in {0, 1} :
          adjudicate_command_loaded(proposal_id, template_id, seed)
    \/ save_trace_nodes_step

SpecCommand == InitCommand /\ [][NextCommand]_vars

\* what the adjudicate command needs and does not find in the store
InputError(proposal_id, template_id) ==
    \/ proposal_id \notin DOMAIN db.proposals
    \/ "current" \notin DOMAIN db.compiled_obligations
    \/ "current" \notin DOMAIN db.compiled_rules
    \/ template_id \notin DOMAIN db.templates

\* C28: an adjudicate command whose proposal id is not in the store, or that
\* finds no compiled obligations, no compiled rules or no template, exits
\* with an error and leaves the stored adjudications and trace nodes as they
\* were.
C28_NoPartialResults ==
    [][\A proposal_id \in {"p1", "p9"}, template_id \in {"t1", "t9"}, seed \in {0, 1} :
          (InputError(proposal_id, template_id)
           /\ adjudicate_command_loaded(proposal_id, template_id, seed)) =>
              /\ pc' = "failed"
              /\ db'.adjudications = db.adjudications
              /\ db'.trace_nodes = db.trace_nodes]_vars

\* an adjudicate command found its proposal and the template but nothing
\* compiled, and exited; nothing was ever adjudicated
C28_Witness ==
    /\ pc = "failed"
    /\ proposal # NoProposal
    /\ proposal = load_proposal(db, "p1")
    /\ "t1" \in DOMAIN db.templates
    /\ "current" \notin DOMAIN db.compiled_obligations
    /\ db.adjudications = EmptyDict
    /\ db.trace_nodes = EmptyDict

(***************************************************************************)
(* Adjudication of two proposals that agree on slot, evidence atoms and    *)
(* transformations                                                         *)
(***************************************************************************)
\* (proposal_id, agent_id, payload, claimed_basis): what the second proposal
\* may differ in; O9 is the id of no obligation
ProposalVariants ==
    {<<"p1", "agent", [text |-> <<"a">>], <<"O1">>>>,
     <<"p2", "other", [rows |-> <<[cells |-> <<ScalarCell("B1")>>]>>],
       <<"O2", "O9">>>>,
     <<"p3", "agent", [pairs |-> DictPairs(<<<<"key1", "value1">>>>)], <<>>>>}

VariedProposals ==
    {SlotProposal(v[1], v[2], s, v[3], e, v[4], t) :
        v \in ProposalVariants,
        s \in {"s1", "s9"},
        e \in {<<>>, <<"a1", "a2">>},
        t \in {<<"summarize">>, <<"invent">>}}

SameVerdictInputs(p, q) ==
    /\ p.slot_id = q.slot_id
    /\ p.evidence_atoms = q.evidence_atoms
    /\ p.transformations_used = q.transformations_used

\* engine.adjudicate(proposal, evidence_atoms), then the same for a proposal
\* with the same slot_id, evidence_atoms and transformations_used
AdjudicateVariant(p) ==
    /\ pc \in {"idle", "first"}
    /\ pc = "first" => SameVerdictInputs(proposal, p)
    /\ proposal' = p
    /\ result' = adjudicate(template, mapping, rules, obligation_lookup, p,
                            evidence_atoms, hash_seed, new_uuid(uuid_counter), clock)
    /\ uuid_counter' = new_uuid(uuid_counter)
    /\ clock' = clock + 1
    /\ previous' = result
    /\ pc' = IF pc = "idle" THEN "first" ELSE "second"
    /\ UNCHANGED <<compile_vars, engine_vars, evidence_atoms, hash_seed, report,
                   trace_vars, period_vars, db>>

NextVariants == \E p \in VariedProposals : AdjudicateVariant(p)

SpecVariants == InitAdjudication /\ [][NextVariants]_vars

MappedIds ==
    {m.obligation_id :
        m \in {x \in Range(mapping) : proposal.slot_id \in Range(x.slot_ids)}}

\* C29: two proposals with the same slot_id, evidence_atoms and
\* transformations_used, adjudicated by one engine against one evidence
\* store, get the same status, check results and rejection reasons, whatever
\* their payload, claimed_basis and agent_id; an obligation named in
\* claimed_basis and not mapped to the slot is not checked.
C29_VerdictInputs ==
    /\ pc = "second" =>
          /\ result.status = previous.status
          /\ result.check_results = previous.check_results
          /\ result.rejection_reasons = previous.rejection_reasons
    /\ pc \in {"first", "second"} =>
          \A id \in Range(proposal.claimed_basis) \ MappedIds :
              /\ \A c \in Range(result.check_results) : c.obligation_id # id
              /\ \A r \in Range(result.rejection_reasons) : r.obligation_id # id

\* a narrative slot; the first proposal has a table payload and claims O2 and
\* O9, the second has a text payload, another agent and claims O1; O2 is an
\* obligation of the engine that is not mapped to the slot; both are accepted
C29_Witness ==
    /\ pc = "second"
    /\ proposal.slot_id = "s1"
    /\ proposal.claimed_basis = <<"O1">>
    /\ "text" \in DOMAIN proposal.payload
    /\ previous.proposal_id = "p2"
    /\ result.proposal_id = "p1"
    /\ Declared("O2")
    /\ "O2" \notin MappedIds
    /\ "O1" \in MappedIds
    /\ Len(result.check_results) >= 4
    /\ result.status = "ACCEPTED"

====
